---- MODULE Spec2Model ----
(***************************************************************************)
(* Model of the in-memory multi-column filter engine of the dashboard:     *)
(*   - UltraFastFilterManager and its reducer (UltraFastFilterContext),    *)
(*   - filterLogic (applyFilters / getAvailableFilterOptions, indexCache)  *)
(*     and the FilterContext reducer with the FilterDropdown component,    *)
(*   - OptimizedFilterManager and the chunkedDataReducer,                  *)
(*   - UltraOptimizedDataGenerator.                                        *)
(*                                                                         *)
(* JavaScript values.  A string is a record [k, a, b, d]:                  *)
(*   k = "num": the decimal literal of the natural a        ("7")          *)
(*   k = "rng": the text "x-y" with x = a/d and y = b/d     ("1-1000")     *)
(*   k = "txt": a non-numeric text without '-', token a     ("Active");    *)
(*              tokens are numbered in alphabetical order and token 9 is   *)
(*              the text "undefined".                                      *)
(* A cell is a record [t, n, s]: a JS number n (t = "number"), a JS string *)
(* s (t = "string") or a missing field (t = "undefined").                  *)
(* A JS Set is a duplicate-free sequence in insertion order, a JS Map a    *)
(* sequence of entries [key, val] in insertion order; row positions are    *)
(* 0-based as in the source.                                               *)
(***************************************************************************)
EXTENDS Integers, Sequences, FiniteSets, TLC

\* ------------------------------------------------------------------ bounds
\* rows of a dataset loaded into the UltraFastFilterContext
MaxRows == 3
\* rows of a dataset loaded into the FilterContext
FLMaxRows == 2
\* rows of a chunked dataset
MaxTotal == 5
\* option lists the chunked context asks for before its cache is cleared
MaxOptionsCached == 1
\* rows of a generated dataset
MaxCount == 4
\* chunks of the dataset a ChunkedFilterManager scans
CFMChunks == 3
\* ticks of the clock Date.now() reads
MaxNow == 2
\* cache hits counted on one entry of the ChunkedFilterManager
MaxHits == 3
\* background scans of the ChunkedFilterManager in flight at once
MaxTasks == 2
\* clearCache() and destroy() calls on the ChunkedFilterManager
MaxClears == 1
\* The depth of the call stack
MaxStack == 3
\* Scaled: ChunkedVirtualScroll pages by 100 rows; the datasets of the model
\* hold a few rows, so a page holds two.
PageSize == 2
\* pageSize of initialState.pagination and of usePagination(…, 100), scaled
PAGE_SIZE == 1

\* ----------------------------------------------------------- JS strings
Num(n) == [k |-> "num", a |-> n, b |-> 0, d |-> 1]
Rng(x, y, den) == [k |-> "rng", a |-> x, b |-> y, d |-> den]
Txt(i) == [k |-> "txt", a |-> i, b |-> 0, d |-> 1]
StrUndefined == Txt(9)

NumberCell(n) == [t |-> "number", n |-> n, s |-> Num(n)]
StringCell(s) == [t |-> "string", n |-> 0, s |-> s]
UndefinedCell == [t |-> "undefined", n |-> 0, s |-> StrUndefined]

\* NaN is modelled by -1: every number of the model is a natural.
NaN == -1
IsNaN(x) == x = NaN

\* String(value)
JSString(cell) ==
  CASE cell.t = "number" -> Num(cell.n)
    [] cell.t = "string" -> cell.s
    [] OTHER -> StrUndefined

\* Number(s) for a string s: only a decimal literal is a number.
StrToNumber(s) == IF s.k = "num" THEN s.a ELSE NaN

\* Number(value)
JSNumber(cell) ==
  CASE cell.t = "number" -> cell.n
    [] cell.t = "string" -> StrToNumber(cell.s)
    [] OTHER -> NaN

\* value.includes('-')
IncludesDash(s) == s.k = "rng"

\* row[column]: a missing field reads as undefined.
Field(row, c) == IF c \in DOMAIN row THEN row[c] ELSE UndefinedCell

\* ------------------------------------------------- sequences, Sets, Maps
Range(s) == {s[i] : i \in 1..Len(s)}

RECURSIVE SeqSum(_)
SeqSum(s) == IF s = <<>> THEN 0 ELSE Head(s) + SeqSum(Tail(s))

\* Set.add: insertion order, no duplicate.
SetAdd(s, x) == IF x \in Range(s) THEN s ELSE Append(s, x)

RECURSIVE SetAddAll(_, _)
SetAddAll(s, xs) == IF xs = <<>> THEN s ELSE SetAddAll(SetAdd(s, Head(xs)), Tail(xs))

\* [...s].filter(x => t.has(x))
SeqFilterIn(s, t) == SelectSeq(s, LAMBDA x : x \in Range(t))

\* Array.prototype.sort((a, b) => a - b) on numbers.
RECURSIVE SortAsc(_)
SortAsc(s) ==
  IF s = <<>> THEN <<>>
  ELSE LET m == CHOOSE x \in Range(s) : \A y \in Range(s) : x <= y
       IN  SelectSeq(s, LAMBDA x : x = m) \o SortAsc(SelectSeq(s, LAMBDA x : x # m))

IsAscending(s) == \A i, j \in 1..Len(s) : i < j => s[i] < s[j]

MapHas(m, key) == \E i \in 1..Len(m) : m[i].key = key
MapGet(m, key) == (m[CHOOSE i \in 1..Len(m) : m[i].key = key]).val
MapSet(m, key, val) ==
  IF MapHas(m, key)
  THEN [i \in 1..Len(m) |-> IF m[i].key = key THEN [key |-> key, val |-> val] ELSE m[i]]
  ELSE Append(m, [key |-> key, val |-> val])
MapKeys(m) == [i \in 1..Len(m) |-> m[i].key]

\* Positions 0 .. n-1 in order.
Positions(n) == [i \in 1..n |-> i - 1]
RowAt(d, p) == d[p + 1]

\* A filter state is a JS object: a sequence of entries [col, vals] in key
\* insertion order, each key once.
FilterKeys(F) == {F[i].col : i \in 1..Len(F)}
FilterGet(F, c) == (F[CHOOSE i \in 1..Len(F) : F[i].col = c]).vals
\* { ...F, [c]: vals }: an existing key keeps its place, a new one goes last.
FilterPut(F, c, vals) ==
  IF c \in FilterKeys(F)
  THEN [i \in 1..Len(F) |-> IF F[i].col = c THEN [col |-> c, vals |-> vals] ELSE F[i]]
  ELSE Append(F, [col |-> c, vals |-> vals])
\* Object.entries(F).filter(([col]) => col !== c)
FilterWithout(F, c) == SelectSeq(F, LAMBDA e : e.col # c)
\* Object.entries(F).filter(([, values]) => values.length > 0)
ActiveEntries(F) == SelectSeq(F, LAMBDA e : Len(e.vals) > 0)

\* The column index of one column after a row at position p holding string v
\* is added: columnIndex.get(value).add(index), the value set created on
\* first use.
IndexAdd(colIndex, v, p) ==
  IF MapHas(colIndex, v)
  THEN MapSet(colIndex, v, SetAdd(MapGet(colIndex, v), p))
  ELSE MapSet(colIndex, v, <<p>>)

\* dataIndex.get(column)?.get(value), <<>> standing for undefined.
Lookup(index, c, v) ==
  IF c \in DOMAIN index /\ MapHas(index[c], v) THEN MapGet(index[c], v) ELSE <<>>

\* -------------------------------------------------- texts of cache keys
\* A cache key is a text, held as the sequence of its UTF-16 code units.
RECURSIVE Digits(_)
Digits(n) == IF n < 10 THEN <<48 + n>> ELSE Append(Digits(n \div 10), 48 + (n % 10))

\* The text of a text token.
TokenChars(i) ==
  CASE i = 1 -> <<65, 99, 116, 105, 118, 101>>
    [] i = 2 -> <<67, 111, 109, 112, 108, 101, 116, 101, 100>>
    [] i = 3 -> <<73, 110, 97, 99, 116, 105, 118, 101>>
    [] i = 4 -> <<80, 101, 110, 100, 105, 110, 103>>
    [] i = 9 -> <<117, 110, 100, 101, 102, 105, 110, 101, 100>>

\* The text of a string that is a decimal literal or a text token.
Chars(s) ==
  CASE s.k = "num" -> Digits(s.a)
    [] s.k = "txt" -> TokenChars(s.a)
    [] s.k = "rng" /\ s.d = 1 -> Digits(s.a) \o <<45>> \o Digits(s.b)

\* The text of a column name.
ColumnChars(c) ==
  CASE c = "number" -> <<110, 117, 109, 98, 101, 114>>
    [] c = "status" -> <<115, 116, 97, 116, 117, 115>>
    [] c = "modulo 3" -> <<109, 111, 100, 117, 108, 111, 32, 51>>
    [] c = "mod3" -> <<109, 111, 100, 51>>
    [] c = "category" -> <<99, 97, 116, 101, 103, 111, 114, 121>>

\* array.join(sep) on texts
RECURSIVE Join(_, _)
Join(texts, sep) ==
  IF texts = <<>> THEN <<>>
  ELSE IF Len(texts) = 1 THEN texts[1]
  ELSE texts[1] \o sep \o Join(Tail(texts), sep)

Quoted(text) == <<34>> \o text \o <<34>>

\* JSON.stringify(filters) of a Record<string, string[]>: the keys in
\* insertion order, each list in its own order.
JSONStringify(F) ==
  <<123>>
    \o Join([i \in 1..Len(F) |->
               Quoted(ColumnChars(F[i].col)) \o <<58, 91>>
                 \o Join([j \in 1..Len(F[i].vals) |-> Quoted(Chars(F[i].vals[j]))], <<44>>)
                 \o <<93>>],
            <<44>>)
    \o <<125>>

\* `options_${column}_${JSON.stringify(currentFilters)}`
OFMOptionsKey(column, F) ==
  <<111, 112, 116, 105, 111, 110, 115, 95>> \o ColumnChars(column) \o <<95>> \o JSONStringify(F)

\* ------------------------------------------------------------- datasets
\* Object.keys(row) lists a row's columns in this order.
ColumnOrder == <<"number", "mod3">>
Columns == Range(ColumnOrder)
Keys(row) == SelectSeq(ColumnOrder, LAMBDA c : c \in DOMAIN row)

\* private numericColumns = new Set(['id', 'number'])
numericColumns == {"id", "number"}

\* The rows a loaded dataset is made of.  "number" holds JS numbers (1 and
\* 11 close together, 201 far away), "mod3" numeric strings; two rows share
\* a number, three share a mod3.
MkRow(n, m) == [c \in Columns |-> IF c = "number" THEN NumberCell(n) ELSE StringCell(Num(m))]
Rows == {MkRow(1, 0), MkRow(11, 1), MkRow(201, 0), MkRow(1, 1)}

\* The selection lists a dropdown of column c may dispatch: empty, one
\* value, two values in either order, a value no row holds, and for the
\* numeric column a range.
SelectionsOf(c) ==
  CASE c = "number" ->
         {<<>>, <<Num(1)>>, <<Num(201), Num(1)>>, <<Rng(1, 11, 1)>>, <<Num(9)>>}
    [] OTHER ->
         {<<>>, <<Num(0)>>, <<Num(1), Num(0)>>, <<Num(0), Num(1)>>, <<Num(9)>>}

\* ------------------------------------------------ UltraFastFilterManager
RECURSIVE UFIndexRow(_, _, _, _)
UFIndexRow(index, row, p, ks) ==
  IF ks = <<>> THEN index
  ELSE LET c == Head(ks)
           colIndex == IF c \in DOMAIN index THEN index[c] ELSE <<>>
       IN  UFIndexRow((c :> IndexAdd(colIndex, JSString(row[c]), p)) @@ index,
                      row, p, Tail(ks))

RECURSIVE UFIndexRows(_, _, _)
UFIndexRows(index, d, p) ==
  IF p >= Len(d) THEN index
  ELSE UFIndexRows(UFIndexRow(index, RowAt(d, p), p, Keys(RowAt(d, p))), d, p + 1)

\* createUltraFastIndexes: the dataIndex of a manager over d.
createUltraFastIndexes(d) == UFIndexRows(<<>>, d, 0)

\* options.sort((a, b) => (b.count || 0) - (a.count || 0)), a stable sort.
RECURSIVE SortByCountDesc(_)
SortByCountDesc(opts) ==
  IF opts = <<>> THEN <<>>
  ELSE LET m == CHOOSE x \in {opts[i].count : i \in 1..Len(opts)} :
                   \A i \in 1..Len(opts) : opts[i].count <= x
       IN  SelectSeq(opts, LAMBDA o : o.count = m)
             \o SortByCountDesc(SelectSeq(opts, LAMBDA o : o.count # m))

Option(v, n) == [value |-> v, count |-> n]

\* array.slice(0, n)
Slice0(s, n) == SubSeq(s, 1, IF Len(s) < n THEN Len(s) ELSE n)

Min2(x, y) == IF x < y THEN x ELSE y
Max2(x, y) == IF x > y THEN x ELSE y
CeilDiv(x, y) == (x + y - 1) \div y

\* The text `${x}-${y}` of two numbers a/den and b/den; whole numbers print
\* without a fraction.
RangeText(x, y, den) ==
  IF x % den = 0 /\ y % den = 0 THEN Rng(x \div den, y \div den, 1) ELSE Rng(x, y, den)

\* rowValue >= start && rowValue <= end, for [start, end] = value.split('-').map(Number)
InRangeText(n, s) == ~IsNaN(n) /\ n * s.d >= s.a /\ n * s.d <= s.b

\* data.map(row => Number(row[column])).filter(v => !isNaN(v))
NumericValues(d, c) ==
  SelectSeq([i \in 1..Len(d) |-> JSNumber(Field(d[i], c))], LAMBDA v : ~IsNaN(v))

\* createNumericFilterOptions
createNumericFilterOptions(d, c) ==
  LET values == NumericValues(d, c) IN
  IF Len(values) = 0 THEN <<>>
  ELSE
  LET min == CHOOSE x \in Range(values) : \A y \in Range(values) : x <= y
      max == CHOOSE x \in Range(values) : \A y \in Range(values) : x >= y
      range == max - min
      dataSize == Len(d)
      uniqueValues == SetAddAll(<<>>, values)
      isSequential == Len(uniqueValues) * 10 > dataSize * 9
  IN
  IF isSequential /\ dataSize > 1000 THEN
    LET bucketSize == Max2(1000, CeilDiv(dataSize, 20))
        maxBuckets == CeilDiv(dataSize, bucketSize)
    IN  IF maxBuckets > 100 THEN <<>>
        ELSE [j \in 1..maxBuckets |->
                LET bucketStart == (j - 1) * bucketSize + 1
                    bucketEnd == Min2(j * bucketSize, dataSize)
                IN  Option(RangeText(bucketStart, bucketEnd, 1), bucketEnd - bucketStart + 1)]
  ELSE IF range <= 100 THEN
    LET limitedValues == Slice0(SortAsc(uniqueValues), 50)
    IN  [j \in 1..Len(limitedValues) |->
           Option(Num(limitedValues[j]),
                  Cardinality({i \in 1..Len(d) :
                                 JSNumber(Field(d[i], c)) = limitedValues[j]}))]
  ELSE
    LET bucketCount == IF dataSize > 100000 THEN 30 ELSE IF dataSize > 50000 THEN 25 ELSE 20
        \* bucketStart = min + i * range / bucketCount, kept as a numerator over bucketCount
        startOf(i) == min * bucketCount + i * range
        countOf(i) == Cardinality({r \in 1..Len(d) :
                         LET v == JSNumber(Field(d[r], c))
                         IN  ~IsNaN(v) /\ v * bucketCount >= startOf(i)
                                       /\ v * bucketCount < startOf(i + 1)})
        all == [j \in 1..bucketCount |->
                  Option(RangeText(startOf(j - 1), startOf(j), bucketCount), countOf(j - 1))]
    IN  SelectSeq(all, LAMBDA o : o.count > 0)

\* precomputeFilterOptions: the filterCache entry of one indexed column.
precomputeFilterOptions(d, index, c) ==
  SortByCountDesc(
    IF c \in numericColumns THEN createNumericFilterOptions(d, c)
    ELSE LET limitedEntries == Slice0(index[c], 100)
         IN  [j \in 1..Len(limitedEntries) |->
                Option(limitedEntries[j].key, Len(limitedEntries[j].val))])

\* new UltraFastFilterManager(data) followed by initialize(): no data leaves
\* the index and the option cache empty.
UFManager(d) ==
  LET index == IF Len(d) = 0 THEN <<>> ELSE createUltraFastIndexes(d)
  IN  [data |-> d,
       dataIndex |-> index,
       filterCache |-> [c \in DOMAIN index |-> precomputeFilterOptions(d, index, c)],
       isInitialized |-> TRUE]

\* getNumericMatchingIndices: a scan of the rows in position order.
getNumericMatchingIndices(fm, c, v) ==
  IF IncludesDash(v)
  THEN SelectSeq(Positions(Len(fm.data)),
                 LAMBDA p : InRangeText(JSNumber(Field(RowAt(fm.data, p), c)), v))
  ELSE LET targetValue == StrToNumber(v)
       IN  SelectSeq(Positions(Len(fm.data)),
                     LAMBDA p : LET n == JSNumber(Field(RowAt(fm.data, p), c))
                                IN  ~IsNaN(n) /\ n = targetValue)

\* The indices one selected value of one column contributes.
UFIndicesOf(fm, c, v) ==
  IF c \in numericColumns THEN getNumericMatchingIndices(fm, c, v)
  ELSE Lookup(fm.dataIndex, c, v)

\* values.forEach(value => indices.forEach(index => acc.add(index)))
RECURSIVE UFUnion(_, _, _, _)
UFUnion(fm, c, vals, acc) ==
  IF vals = <<>> THEN acc
  ELSE UFUnion(fm, c, Tail(vals), SetAddAll(acc, UFIndicesOf(fm, c, Head(vals))))

\* values.forEach(value => indices.forEach(index =>
\*   { if (matchingIndices.has(index)) newMatchingIndices.add(index) }))
RECURSIVE UFIntersect(_, _, _, _, _)
UFIntersect(fm, c, vals, matching, acc) ==
  IF vals = <<>> THEN acc
  ELSE UFIntersect(fm, c, Tail(vals), matching,
                   SetAddAll(acc, SeqFilterIn(UFIndicesOf(fm, c, Head(vals)), matching)))

\* The loop over filters[1..]: stops once nothing matches.
RECURSIVE UFRemaining(_, _, _)
UFRemaining(fm, entries, matching) ==
  IF entries = <<>> THEN matching
  ELSE LET new == UFIntersect(fm, Head(entries).col, Head(entries).vals, matching, <<>>)
       IN  IF Len(new) = 0 THEN new ELSE UFRemaining(fm, Tail(entries), new)

\* getMatchingIndices(filters)
getMatchingIndices(fm, entries) ==
  IF Len(entries) = 0 THEN Positions(Len(fm.data))
  ELSE UFRemaining(fm, Tail(entries),
                   UFUnion(fm, Head(entries).col, Head(entries).vals, <<>>))

\* getNumericFilterOptions
getNumericFilterOptions(fm, c, matching, allOptions) ==
  LET countOf(o) ==
        IF IncludesDash(o.value)
        THEN Len(SelectSeq(matching,
                 LAMBDA p : InRangeText(JSNumber(Field(RowAt(fm.data, p), c)), o.value)))
        ELSE Len(SelectSeq(matching,
                 LAMBDA p : LET n == JSNumber(Field(RowAt(fm.data, p), c))
                            IN  ~IsNaN(n) /\ n = StrToNumber(o.value)))
      counted == [j \in 1..Len(allOptions) |-> Option(allOptions[j].value, countOf(allOptions[j]))]
  IN  SortByCountDesc(SelectSeq(counted, LAMBDA o : o.count > 0))

\* getCountForValueInFilteredData, for a column that is not numeric
getCountForValueInFilteredData(fm, c, v, matching) ==
  Len(SelectSeq(matching, LAMBDA p : JSString(Field(RowAt(fm.data, p), c)) = v))

\* getValueBasedFilterOptions
getValueBasedFilterOptions(fm, c, matching, allOptions) ==
  LET availableValues == {JSString(Field(RowAt(fm.data, p), c)) : p \in Range(matching)}
      availableOptions == SelectSeq(allOptions, LAMBDA o : o.value \in availableValues)
  IN  SortByCountDesc(
        [j \in 1..Len(availableOptions) |->
           Option(availableOptions[j].value,
                  getCountForValueInFilteredData(fm, c, availableOptions[j].value, matching))])

\* UltraFastFilterManager.getAvailableFilterOptions(column, currentFilters)
UFgetAvailableFilterOptions(fm, c, F) ==
  LET allOptions == IF c \in DOMAIN fm.filterCache THEN fm.filterCache[c] ELSE <<>>
      otherFilters == FilterWithout(F, c)
  IN  IF Len(otherFilters) = 0 THEN allOptions
      ELSE LET matching == getMatchingIndices(fm, otherFilters)
           IN  IF c \in numericColumns
               THEN getNumericFilterOptions(fm, c, matching, allOptions)
               ELSE getValueBasedFilterOptions(fm, c, matching, allOptions)

\* UltraFastFilterManager.getFilteredData(filters), as row positions
UFgetFilteredData(fm, F) ==
  LET filterEntries == ActiveEntries(F)
  IN  IF Len(filterEntries) = 0 THEN Positions(Len(fm.data))
      ELSE getMatchingIndices(fm, filterEntries)

\* UltraFastFilterManager.getFilteredCount(filters)
UFgetFilteredCount(fm, F) ==
  LET filterEntries == ActiveEntries(F)
  IN  IF Len(filterEntries) = 0 THEN Len(fm.data)
      ELSE Len(getMatchingIndices(fm, filterEntries))

\* ------------------------------------------------------------ filterLogic
\* Scaled: the source sets SMALL_DATASET_THRESHOLD = 1000; datasets of the
\* model hold a few rows, so the threshold is lowered to keep both the
\* direct and the indexed strategy in reach.
SMALL_DATASET_THRESHOLD == 2
CACHE_SIZE_LIMIT == 5

\* selectedValues.includes(String(row[column])) for every active filter
RowPasses(row, entries) ==
  \A i \in 1..Len(entries) :
     JSString(Field(row, entries[i].col)) \in Range(entries[i].vals)

\* `${data.length}-${Object.keys(data[0] || {}).join(',')}`
CacheKeyOf(d) == [n |-> Len(d), cols |-> IF Len(d) = 0 THEN <<>> ELSE Keys(d[1])]

\* Object.entries(row).forEach(([column, value]) => columnIndices.get(column)!...add(rowIndex))
RECURSIVE FLIndexRow(_, _, _, _)
FLIndexRow(index, row, p, ks) ==
  IF ks = <<>> THEN index
  ELSE LET c == Head(ks)
       IN  FLIndexRow((c :> IndexAdd(index[c], JSString(row[c]), p)) @@ index,
                      row, p, Tail(ks))

RECURSIVE FLIndexRows(_, _, _)
FLIndexRows(index, d, p) ==
  IF p >= Len(d) THEN index
  ELSE FLIndexRows(FLIndexRow(index, RowAt(d, p), p, Keys(RowAt(d, p))), d, p + 1)

\* The first value holding the most rows ('' for an empty column).
MostCommon(valueMap) ==
  IF Len(valueMap) = 0 THEN Txt(-1)
  ELSE LET best == CHOOSE i \in 1..Len(valueMap) :
                      /\ \A j \in 1..Len(valueMap) : Len(valueMap[j].val) <= Len(valueMap[i].val)
                      /\ \A j \in 1..(i - 1) : Len(valueMap[j].val) < Len(valueMap[i].val)
       IN  valueMap[best].key

\* The index built from scratch: one map per column of the first row, then
\* every row's entries (batched or not, the same rows in the same order),
\* then the column statistics.
BuildIndex(d) ==
  LET cols == IF Len(d) = 0 THEN {} ELSE DOMAIN d[1]
      sampleSize == Min2(100, Len(d))
      columnIndices == FLIndexRows([c \in cols |-> <<>>], d, 0)
  IN  [columnIndices |-> columnIndices,
       rowCount |-> Len(d),
       columnStats |->
         [c \in cols |->
            [uniqueCount |-> Len(columnIndices[c]),
             mostCommon |-> MostCommon(columnIndices[c]),
             dataType |-> IF \A i \in 1..sampleSize : ~IsNaN(JSNumber(Field(d[i], c)))
                          THEN "number" ELSE "string"]]]

\* buildOptimizedFilterIndex(data, cacheKey): the index returned and the
\* indexCache afterwards.  A cached index is returned when its rowCount is
\* data.length; otherwise a new one is built and cached, the oldest key
\* evicted when the cache is full.
buildOptimizedFilterIndex(d, cacheKey, cache) ==
  IF MapHas(cache, cacheKey) /\ MapGet(cache, cacheKey).rowCount = Len(d)
  THEN [index |-> MapGet(cache, cacheKey), cache |-> cache]
  ELSE LET index == BuildIndex(d)
           room == IF Len(cache) >= CACHE_SIZE_LIMIT THEN Tail(cache) ELSE cache
       IN  [index |-> index, cache |-> MapSet(room, cacheKey, index)]

\* selectivityA - selectivityB, as a sign: 0 when a column has no statistics.
SelectivityCmp(index, ea, eb) ==
  IF ea.col \notin DOMAIN index.columnStats \/ eb.col \notin DOMAIN index.columnStats THEN 0
  ELSE Len(ea.vals) * index.columnStats[eb.col].uniqueCount
         - Len(eb.vals) * index.columnStats[ea.col].uniqueCount

\* activeFilters.sort((a, b) => selectivityA - selectivityB): a stable
\* insertion sort.
RECURSIVE InsertBySelectivity(_, _, _)
InsertBySelectivity(index, sorted, x) ==
  IF sorted = <<>> THEN <<x>>
  ELSE LET last == sorted[Len(sorted)]
       IN  IF SelectivityCmp(index, x, last) < 0
           THEN Append(InsertBySelectivity(index, SubSeq(sorted, 1, Len(sorted) - 1), x), last)
           ELSE Append(sorted, x)

RECURSIVE SortBySelectivity(_, _)
SortBySelectivity(index, s) ==
  IF s = <<>> THEN <<>>
  ELSE InsertBySelectivity(index, SortBySelectivity(index, SubSeq(s, 1, Len(s) - 1)), s[Len(s)])

\* selectedValues.forEach(value => valueIndices.forEach(idx => columnIndices.add(idx)))
RECURSIVE FLUnion(_, _, _)
FLUnion(columnMap, vals, acc) ==
  IF vals = <<>> THEN acc
  ELSE FLUnion(columnMap, Tail(vals),
               SetAddAll(acc, IF MapHas(columnMap, Head(vals))
                              THEN MapGet(columnMap, Head(vals)) ELSE <<>>))

\* The loop of applyFilters over the sorted filters.  valid is <<-1>> for
\* null; the result is [done |-> TRUE] when the loop returned [] early.
RECURSIVE FLIntersectLoop(_, _, _)
FLIntersectLoop(index, entries, valid) ==
  IF entries = <<>> THEN [done |-> FALSE, valid |-> valid]
  ELSE LET e == Head(entries) IN
       IF e.col \notin DOMAIN index.columnIndices
       THEN FLIntersectLoop(index, Tail(entries), valid)
       ELSE LET columnIndices == FLUnion(index.columnIndices[e.col], e.vals, <<>>) IN
            IF valid = <<-1>>
            THEN FLIntersectLoop(index, Tail(entries), columnIndices)
            ELSE LET smaller == IF Len(valid) < Len(columnIndices) THEN valid ELSE columnIndices
                     larger == IF Len(valid) < Len(columnIndices) THEN columnIndices ELSE valid
                     both == SeqFilterIn(smaller, larger)
                 IN  IF Len(both) = 0 THEN [done |-> TRUE, valid |-> <<>>]
                     ELSE FLIntersectLoop(index, Tail(entries), both)

\* applyFilters(data, filters): the rows returned, as positions of data, and
\* the indexCache afterwards.
applyFilters(d, F, cache) ==
  LET activeFilters == ActiveEntries(F) IN
  IF Len(activeFilters) = 0 THEN [rows |-> Positions(Len(d)), cache |-> cache]
  ELSE IF Len(d) < SMALL_DATASET_THRESHOLD
  THEN [rows |-> SelectSeq(Positions(Len(d)), LAMBDA p : RowPasses(RowAt(d, p), activeFilters)),
        cache |-> cache]
  ELSE LET built == buildOptimizedFilterIndex(d, CacheKeyOf(d), cache)
           sortedFilters == SortBySelectivity(built.index, activeFilters)
           loop == FLIntersectLoop(built.index, sortedFilters, <<-1>>)
       IN  [rows |-> IF loop.done \/ loop.valid = <<-1>> THEN <<>> ELSE loop.valid,
            cache |-> built.cache]

\* applyFiltersExcept
applyFiltersExcept(d, F, excludeColumn, cache) ==
  applyFilters(d, FilterWithout(F, excludeColumn), cache)

\* String.prototype.localeCompare on texts of hyphens, digits and letters
\* (root collation): texts compare by the primary weights of their
\* characters, punctuation before digits before letters whatever their case,
\* a proper prefix first; texts of equal primary weights compare by case,
\* lower case first.
PrimaryWeight(ch) ==
  IF ch >= 48 /\ ch <= 57 THEN 100 + (ch - 48)
  ELSE IF ch >= 65 /\ ch <= 90 THEN 200 + (ch - 65)
  ELSE IF ch >= 97 /\ ch <= 122 THEN 200 + (ch - 97)
  ELSE ch

RECURSIVE ComparePrimary(_, _)
ComparePrimary(x, y) ==
  IF x = <<>> THEN (IF y = <<>> THEN 0 ELSE -1)
  ELSE IF y = <<>> THEN 1
  ELSE IF PrimaryWeight(Head(x)) # PrimaryWeight(Head(y))
       THEN (IF PrimaryWeight(Head(x)) < PrimaryWeight(Head(y)) THEN -1 ELSE 1)
  ELSE ComparePrimary(Tail(x), Tail(y))

RECURSIVE CompareCase(_, _)
CompareCase(x, y) ==
  IF x = <<>> THEN 0
  ELSE IF Head(x) # Head(y) THEN (IF Head(x) > Head(y) THEN -1 ELSE 1)
  ELSE CompareCase(Tail(x), Tail(y))

localeCompare(x, y) ==
  IF ComparePrimary(x, y) # 0 THEN ComparePrimary(x, y) ELSE CompareCase(x, y)

\* The comparator of the option sorts: numeric when both values are
\* numbers, localeCompare otherwise.
ValueCmp(x, y) ==
  IF ~IsNaN(StrToNumber(x)) /\ ~IsNaN(StrToNumber(y)) THEN x.a - y.a
  ELSE localeCompare(Chars(x), Chars(y))

\* filteredData.forEach(row => valueCounts.set(value, (valueCounts.get(value) || 0) + 1))
RECURSIVE CountValues(_, _, _, _)
CountValues(d, c, rows, counts) ==
  IF rows = <<>> THEN counts
  ELSE LET v == JSString(Field(RowAt(d, Head(rows)), c))
       IN  CountValues(d, c, Tail(rows),
                       MapSet(counts, v, IF MapHas(counts, v) THEN MapGet(counts, v) + 1 ELSE 1))

\* options.sort(...) by value: a stable insertion sort.
RECURSIVE InsertByValue(_, _)
InsertByValue(sorted, x) ==
  IF sorted = <<>> THEN <<x>>
  ELSE LET last == sorted[Len(sorted)]
       IN  IF ValueCmp(x.value, last.value) < 0
           THEN Append(InsertByValue(SubSeq(sorted, 1, Len(sorted) - 1), x), last)
           ELSE Append(sorted, x)

RECURSIVE SortByValue(_)
SortByValue(s) ==
  IF s = <<>> THEN <<>>
  ELSE InsertByValue(SortByValue(SubSeq(s, 1, Len(s) - 1)), s[Len(s)])

OptionsOfCounts(counts) ==
  SortByValue([j \in 1..Len(counts) |-> Option(counts[j].key, counts[j].val)])

\* forEach over the other filters of getAvailableFilterOptions (indexed
\* strategy): valid is <<-1>> for null.
RECURSIVE FLOtherLoop(_, _, _)
FLOtherLoop(index, entries, valid) ==
  IF entries = <<>> THEN valid
  ELSE LET e == Head(entries) IN
       IF Len(e.vals) = 0 \/ e.col \notin DOMAIN index.columnIndices
       THEN FLOtherLoop(index, Tail(entries), valid)
       ELSE LET columnIndices == FLUnion(index.columnIndices[e.col], e.vals, <<>>)
            IN  FLOtherLoop(index, Tail(entries),
                            IF valid = <<-1>> THEN columnIndices
                            ELSE SeqFilterIn(valid, columnIndices))

\* getAvailableFilterOptions(allData, currentFilters, targetColumn) of
\* filterLogic: the options and the indexCache afterwards.
getAvailableFilterOptions(d, F, targetColumn, cache) ==
  IF Len(d) < SMALL_DATASET_THRESHOLD
  THEN LET filtered == applyFiltersExcept(d, F, targetColumn, cache)
       IN  [options |-> OptionsOfCounts(CountValues(d, targetColumn, filtered.rows, <<>>)),
            cache |-> filtered.cache]
  ELSE LET built == buildOptimizedFilterIndex(d, CacheKeyOf(d), cache)
           valid == FLOtherLoop(built.index, FilterWithout(F, targetColumn), <<-1>>)
       IN  IF targetColumn \notin DOMAIN built.index.columnIndices
           THEN [options |-> <<>>, cache |-> built.cache]
           ELSE LET targetColumnMap == built.index.columnIndices[targetColumn]
                    counted == [j \in 1..Len(targetColumnMap) |->
                                  [key |-> targetColumnMap[j].key,
                                   val |-> IF valid = <<-1>>
                                           THEN Len(targetColumnMap[j].val)
                                           ELSE Len(SeqFilterIn(targetColumnMap[j].val, valid))]]
                IN  [options |-> OptionsOfCounts(
                                   IF valid = <<-1>> THEN counted
                                   ELSE SelectSeq(counted, LAMBDA e : e.val > 0)),
                     cache |-> built.cache]

\* ------------------------------------- FilterDropdown (string[] filterLogic)
\* The FilterDropdown component is written against the filterLogic variant
\* whose getAvailableFilterOptions returns the sorted unique strings.
SimpleApplyFilters(d, F) ==
  SelectSeq(Positions(Len(d)),
            LAMBDA p : \A i \in 1..Len(F) :
                          \/ Len(F[i].vals) = 0
                          \/ JSString(Field(RowAt(d, p), F[i].col)) \in Range(F[i].vals))

RECURSIVE UniqueValues(_, _, _, _)
UniqueValues(d, c, rows, acc) ==
  IF rows = <<>> THEN acc
  ELSE UniqueValues(d, c, Tail(rows), SetAdd(acc, JSString(Field(RowAt(d, Head(rows)), c))))

\* uniqueValues.sort(...): a stable insertion sort of strings.
RECURSIVE InsertString(_, _)
InsertString(sorted, x) ==
  IF sorted = <<>> THEN <<x>>
  ELSE LET last == sorted[Len(sorted)]
       IN  IF ValueCmp(x, last) < 0
           THEN Append(InsertString(SubSeq(sorted, 1, Len(sorted) - 1), x), last)
           ELSE Append(sorted, x)

RECURSIVE SortStrings(_)
SortStrings(s) ==
  IF s = <<>> THEN <<>>
  ELSE InsertString(SortStrings(SubSeq(s, 1, Len(s) - 1)), s[Len(s)])

SimpleGetAvailableFilterOptions(d, F, targetColumn) ==
  SortStrings(UniqueValues(d, targetColumn,
                           SimpleApplyFilters(d, FilterWithout(F, targetColumn)), <<>>))

\* calculateFilterCounts(data, column, values): counts[value] for each of
\* values, counted over all of data (directly or batch by batch).
calculateFilterCounts(d, c, values) ==
  [j \in 1..Len(values) |->
     [key |-> values[j],
      val |-> Len(SelectSeq(Positions(Len(d)),
                            LAMBDA p : JSString(Field(RowAt(d, p), c)) = values[j]))]]

\* FilterDropdown: optionsWithCounts
optionsWithCounts(d, F, c) ==
  LET availableOptions == SimpleGetAvailableFilterOptions(d, F, c)
      counts == calculateFilterCounts(d, c, availableOptions)
  IN  IF Len(availableOptions) = 0 THEN <<>>
      ELSE [j \in 1..Len(availableOptions) |->
              Option(availableOptions[j], MapGet(counts, availableOptions[j]))]

\* ------------------------------------------------ OptimizedFilterManager
\* null / undefined where a Set or a column name is expected
Null == <<-1>>
NoColumn == ""

\* new OptimizedFilterManager(totalCount, chunkSize)
NewOFM(total, size) ==
  [dataIndex |-> <<>>, dataCache |-> <<>>, filterCache |-> <<>>, optionsCache |-> <<>>,
   totalCount |-> total, chunkSize |-> size]

RECURSIVE OFMIndexRows(_, _, _, _, _)
OFMIndexRows(colIndex, column, rows, startIndex, localIndex) ==
  IF localIndex >= Len(rows) THEN colIndex
  ELSE LET globalIndex == startIndex + localIndex
           value == JSString(Field(RowAt(rows, localIndex), column))
       IN  OFMIndexRows(IndexAdd(colIndex, value, globalIndex),
                        column, rows, startIndex, localIndex + 1)

\* buildIndex with the chunk-local index stored in place of the global one
OFMbuildIndexLocal(m, column, rows, startIndex) ==
  LET columnIndex == IF column \in DOMAIN m.dataIndex THEN m.dataIndex[column] ELSE <<>>
  IN  [m EXCEPT !.dataIndex =
         (column :> OFMIndexRows(columnIndex, column, rows, 0, 0)) @@ m.dataIndex]

\* buildIndex with a new Map set for the column on every call
OFMbuildIndexFresh(m, column, rows, startIndex) ==
  [m EXCEPT !.dataIndex =
     (column :> OFMIndexRows(<<>>, column, rows, startIndex, 0)) @@ m.dataIndex]

\* buildIndex(column, data, startIndex)
OFMbuildIndex(m, column, rows, startIndex) ==
  LET columnIndex == IF column \in DOMAIN m.dataIndex THEN m.dataIndex[column] ELSE <<>>
  IN  [m EXCEPT !.dataIndex =
         (column :> OFMIndexRows(columnIndex, column, rows, startIndex, 0)) @@ m.dataIndex]

RECURSIVE OFMCacheRows(_, _, _, _)
OFMCacheRows(cache, rows, startIndex, localIndex) ==
  IF localIndex >= Len(rows) THEN cache
  ELSE OFMCacheRows(MapSet(cache, startIndex + localIndex, RowAt(rows, localIndex)),
                    rows, startIndex, localIndex + 1)

\* cacheData(data, startIndex)
OFMcacheData(m, rows, startIndex) ==
  [m EXCEPT !.dataCache = OFMCacheRows(m.dataCache, rows, startIndex, 0)]

\* for (const value of selectedValues) indices.forEach(index => columnIndices.add(index))
RECURSIVE OFMUnion(_, _, _)
OFMUnion(columnIndex, vals, acc) ==
  IF vals = <<>> THEN acc
  ELSE OFMUnion(columnIndex, Tail(vals),
                SetAddAll(acc, IF MapHas(columnIndex, Head(vals))
                               THEN MapGet(columnIndex, Head(vals)) ELSE <<>>))

\* getFilteredIndices(filters, excludeColumn): Null or a Set of positions
RECURSIVE OFMIndicesLoop(_, _, _, _)
OFMIndicesLoop(m, entries, excludeColumn, result) ==
  IF entries = <<>> THEN result
  ELSE LET e == Head(entries) IN
       IF e.col = excludeColumn \/ Len(e.vals) = 0
       THEN OFMIndicesLoop(m, Tail(entries), excludeColumn, result)
       ELSE IF e.col \notin DOMAIN m.dataIndex THEN <<>>
       ELSE LET columnIndices == OFMUnion(m.dataIndex[e.col], e.vals, <<>>)
                next == IF result = Null THEN columnIndices
                        ELSE SeqFilterIn(result, columnIndices)
            IN  IF Len(next) = 0 THEN next
                ELSE OFMIndicesLoop(m, Tail(entries), excludeColumn, next)

getFilteredIndices(m, F, excludeColumn) == OFMIndicesLoop(m, F, excludeColumn, Null)

\* getFilteredCount(filters): the count returned and the manager afterwards;
\* the cache key JSON.stringify(filters) is the filter state itself, keys
\* and values in order.
OFMgetFilteredCount(m, F) ==
  LET cacheKey == JSONStringify(F) IN
  IF Len(F) = 0 THEN [count |-> m.totalCount, m |-> m]
  ELSE IF MapHas(m.filterCache, cacheKey)
  THEN [count |-> Len(MapGet(m.filterCache, cacheKey)), m |-> m]
  ELSE LET filteredIndices == getFilteredIndices(m, F, NoColumn)
       IN  IF filteredIndices = Null THEN [count |-> 0, m |-> m]
           ELSE [count |-> Len(filteredIndices),
                 m |-> [m EXCEPT !.filterCache =
                                   MapSet(m.filterCache, cacheKey, filteredIndices)]]

\* getFilterOptions(column, currentFilters): the options returned and the
\* manager afterwards.
OFMgetFilterOptions(m, column, F) ==
  LET cacheKey == OFMOptionsKey(column, F) IN
  IF MapHas(m.optionsCache, cacheKey)
  THEN [options |-> MapGet(m.optionsCache, cacheKey), m |-> m]
  ELSE IF column \notin DOMAIN m.dataIndex THEN [options |-> <<>>, m |-> m]
  ELSE LET columnIndex == m.dataIndex[column]
           validIndices == getFilteredIndices(m, F, column)
           uniqueValues ==
             IF Len(F) = 0 THEN MapKeys(columnIndex)
             ELSE IF validIndices = Null THEN <<>>
             ELSE MapKeys(SelectSeq(columnIndex,
                                    LAMBDA e : \E x \in Range(e.val) : x \in Range(validIndices)))
           result == SortStrings(uniqueValues)
       IN  [options |-> result,
            m |-> [m EXCEPT !.optionsCache = MapSet(m.optionsCache, cacheKey, result)]]

\* The loop of getFilteredDataRange over the sorted indices.
RECURSIVE OFMRangeLoop(_, _, _, _, _)
OFMRangeLoop(m, sortedIndices, startIndex, endIndex, result) ==
  IF sortedIndices = <<>> THEN result
  ELSE LET index == Head(sortedIndices)
           pushed == IF index >= startIndex /\ index <= endIndex /\ MapHas(m.dataCache, index)
                     THEN Append(result, index) ELSE result
       IN  IF Len(pushed) >= endIndex - startIndex + 1 THEN pushed
           ELSE OFMRangeLoop(m, Tail(sortedIndices), startIndex, endIndex, pushed)

\* getFilteredDataRange(startIndex, endIndex, filters): the rows returned,
\* as the positions they are cached under.
OFMgetFilteredDataRange(m, startIndex, endIndex, F) ==
  IF Len(F) = 0
  THEN SelectSeq(Positions(m.totalCount),
                 LAMBDA i : i >= startIndex /\ i <= endIndex /\ MapHas(m.dataCache, i))
  ELSE LET filteredIndices == getFilteredIndices(m, F, NoColumn)
       IN  IF filteredIndices = Null THEN <<>>
           ELSE OFMRangeLoop(m, SortAsc(filteredIndices), startIndex, endIndex, <<>>)

\* ---------------------------------------------------- ChunkedDataGenerator
\* statuses[id % statuses.length] of ['Active', 'Pending', 'Inactive',
\* 'Completed'], as text tokens in alphabetical order.
Active == Txt(1)
Completed == Txt(2)
Inactive == Txt(3)
Pending == Txt(4)
ChunkStatus(id) ==
  CASE id % 4 = 0 -> Active
    [] id % 4 = 1 -> Pending
    [] id % 4 = 2 -> Inactive
    [] OTHER -> Completed

\* The row generateChunkSync makes for position i: number, status and the
\* 'modulo 3' key.
ChunkRow(i) ==
  LET id == i + 1
  IN  [c \in {"number", "status", "modulo 3"} |->
         CASE c = "number" -> NumberCell(id)
           [] c = "status" -> StringCell(ChunkStatus(id))
           [] OTHER -> StringCell(Num(id % 3))]

\* this.chunkSize = Math.min(chunkSize, Math.max(1000, Math.floor(totalCount / 1000)))
GeneratorChunkSize(total, size) == Min2(size, Max2(1000, total \div 1000))

\* getTotalChunks()
getTotalChunks(total, size) == CeilDiv(total, size)

\* generateChunk(chunkIndex) of a generator of total rows in chunks of size
generateChunk(total, size, chunkIndex) ==
  LET startIndex == chunkIndex * size
      endIndex == Min2(startIndex + size, total)
  IN  [j \in 1..(endIndex - startIndex) |-> ChunkRow(startIndex + j - 1)]

\* The columns the chunked context indexes, in the order of its buildIndex
\* calls.
IndexedColumns == <<"number", "mod3", "status">>

RECURSIVE OFMBuildColumns(_, _, _, _)
OFMBuildColumns(m, cols, rows, startIndex) ==
  IF cols = <<>> THEN m
  ELSE OFMBuildColumns(OFMbuildIndex(m, Head(cols), rows, startIndex),
                       Tail(cols), rows, startIndex)

\* The buildIndex calls for one chunk followed by cacheData.
IndexChunk(m, cols, rows, startIndex) ==
  OFMcacheData(OFMBuildColumns(m, cols, rows, startIndex), rows, startIndex)

\* The preload loop of INITIALIZE_GENERATOR: chunks i .. chunksToPreload.
RECURSIVE Preload(_, _, _, _, _)
Preload(m, total, size, i, chunksToPreload) ==
  IF i > chunksToPreload THEN m
  ELSE Preload(IndexChunk(m, IndexedColumns, generateChunk(total, size, i), i * size),
               total, size, i + 1, chunksToPreload)

\* --------------------------------------------- UltraOptimizedDataGenerator
\* The row generateLargeDataset makes for position i: number and 'modulo 3'.
GenRow(i) ==
  LET id == i + 1
  IN  [c \in {"number", "modulo 3"} |->
         IF c = "number" THEN NumberCell(id) ELSE StringCell(Num(id % 3))]

GenData(count) == [j \in 1..count |-> GenRow(j - 1)]

\* The instance after construction
NewGenerator == [dataCache |-> <<>>, columnIndexes |-> <<>>, currentData |-> <<>>,
                 isInitialized |-> FALSE]

RECURSIVE GenIndexColumn(_, _, _, _)
GenIndexColumn(columnIndex, d, column, idx) ==
  IF idx >= Len(d) THEN columnIndex
  ELSE GenIndexColumn(IndexAdd(columnIndex, JSString(Field(RowAt(d, idx), column)), idx),
                      d, column, idx + 1)

\* buildIndexes(data)
buildIndexes(g, d) ==
  IF g.isInitialized THEN g
  ELSE LET columns == IF Len(d) = 0 THEN {} ELSE DOMAIN d[1]
       IN  [g EXCEPT !.columnIndexes =
                        [c \in columns |-> GenIndexColumn(<<>>, d, c, 0)] @@ g.columnIndexes,
                     !.isInitialized = TRUE]

\* generateLargeDataset(count): the instance afterwards
generateLargeDataset(g, count) ==
  IF MapHas(g.dataCache, count)
  THEN [g EXCEPT !.currentData = MapGet(g.dataCache, count)]
  ELSE LET d == GenData(count)
       IN  buildIndexes([g EXCEPT !.dataCache = MapSet(g.dataCache, count, d),
                                  !.currentData = d], d)

\* this.columnIndexes.get(column)?.get(value), <<>> for undefined
GenLookup(g, column, value) == Lookup(g.columnIndexes, column, value)

RECURSIVE GenFirst(_, _, _, _)
GenFirst(g, column, vals, matching) ==
  IF vals = <<>> THEN matching
  ELSE GenFirst(g, column, Tail(vals), SetAddAll(matching, GenLookup(g, column, Head(vals))))

RECURSIVE GenNarrow(_, _, _, _, _)
GenNarrow(g, column, vals, matching, newMatching) ==
  IF vals = <<>> THEN newMatching
  ELSE GenNarrow(g, column, Tail(vals), matching,
                 SetAddAll(newMatching,
                           SeqFilterIn(GenLookup(g, column, Head(vals)), matching)))

RECURSIVE GenRest(_, _, _)
GenRest(g, entries, matching) ==
  IF entries = <<>> THEN matching
  ELSE LET narrowed == GenNarrow(g, Head(entries).col, Head(entries).vals, matching, <<>>)
       IN  IF Len(narrowed) = 0 THEN narrowed ELSE GenRest(g, Tail(entries), narrowed)

\* filterData(filters): the indices whose rows are returned, in the order
\* returned; getDataAtIndex yields {} for an index outside currentData.
filterData(g, F) ==
  LET activeFilters == ActiveEntries(F)
  IN  IF Len(activeFilters) = 0 THEN Positions(Len(g.currentData))
      ELSE GenRest(g, Tail(activeFilters),
                   GenFirst(g, Head(activeFilters).col, Head(activeFilters).vals, <<>>))

\* getDataAtIndex(index)
getDataAtIndex(g, index) ==
  IF index < Len(g.currentData) THEN RowAt(g.currentData, index) ELSE <<>>

RECURSIVE GenCountValues(_, _, _, _)
GenCountValues(g, column, indices, counts) ==
  IF indices = <<>> THEN counts
  ELSE LET v == JSString(Field(getDataAtIndex(g, Head(indices)), column))
       IN  GenCountValues(g, column, Tail(indices),
                          MapSet(counts, v, IF MapHas(counts, v) THEN MapGet(counts, v) + 1 ELSE 1))

\* UltraOptimizedDataGenerator.getAvailableFilterOptions(column, filters)
GenGetAvailableFilterOptions(g, column, F) ==
  LET otherFilters == FilterWithout(F, column)
  IN  IF Len(otherFilters) = 0
      THEN IF column \notin DOMAIN g.columnIndexes THEN <<>>
           ELSE SortByCountDesc([j \in 1..Len(g.columnIndexes[column]) |->
                                   Option(g.columnIndexes[column][j].key,
                                          Len(g.columnIndexes[column][j].val))])
      ELSE LET counts == GenCountValues(g, column, filterData(g, otherFilters), <<>>)
           IN  SortByCountDesc([j \in 1..Len(counts) |-> Option(counts[j].key, counts[j].val)])

\* ------------------------------------------------- ChunkedFilterManager
\* Scaled: the source scans IMMEDIATE_CHUNKS = 3 chunks at once and
\* BACKGROUND_BATCH_SIZE = 10 chunks per background batch, holds
\* CACHE_SIZE_LIMIT = 1000 entries and lets an entry live FILTER_CACHE_TTL =
\* 300000 ms; the datasets of the model hold a few chunks, and an entry lives
\* one tick of the clock.
IMMEDIATE_CHUNKS == 1
BACKGROUND_BATCH_SIZE == 1
CFM_CACHE_SIZE_LIMIT == 2
FILTER_CACHE_TTL == 1

\* a < b in the order of the UTF-16 code units
RECURSIVE LexLess(_, _)
LexLess(a, b) ==
  IF b = <<>> THEN FALSE
  ELSE IF a = <<>> THEN TRUE
  ELSE IF Head(a) # Head(b) THEN Head(a) < Head(b)
  ELSE LexLess(Tail(a), Tail(b))

\* One step of values.sort(): x goes after the strings not greater than it.
RECURSIVE InsertDefault(_, _)
InsertDefault(sorted, x) ==
  IF sorted = <<>> THEN <<x>>
  ELSE IF LexLess(Chars(x), Chars(Head(sorted))) THEN <<x>> \o sorted
  ELSE <<Head(sorted)>> \o InsertDefault(Tail(sorted), x)

\* values.sort() with no comparator: the strings by their code units.
RECURSIVE DefaultSort(_)
DefaultSort(vals) ==
  IF vals = <<>> THEN <<>>
  ELSE InsertDefault(DefaultSort(SubSeq(vals, 1, Len(vals) - 1)), vals[Len(vals)])

RECURSIVE InsertByColumn(_, _)
InsertByColumn(sorted, e) ==
  IF sorted = <<>> THEN <<e>>
  ELSE IF LexLess(ColumnChars(e.col), ColumnChars(Head(sorted).col)) THEN <<e>> \o sorted
  ELSE <<Head(sorted)>> \o InsertByColumn(Tail(sorted), e)

\* entries.sort(([a], [b]) => a.localeCompare(b)); the column names are
\* lower-case words that differ in their first letter.
RECURSIVE SortByColumn(_)
SortByColumn(entries) ==
  IF entries = <<>> THEN <<>>
  ELSE InsertByColumn(SortByColumn(SubSeq(entries, 1, Len(entries) - 1)),
                      entries[Len(entries)])

\* createFilterKey(filters, excludeColumn): the key, and the filters object
\* as the call leaves it, since values.sort() sorts each list it joins in
\* place.
createFilterKey(F, excludeColumn) ==
  LET joined(e) == e.col # excludeColumn /\ Len(e.vals) > 0
      sorted == [i \in 1..Len(F) |->
                   IF joined(F[i]) THEN [col |-> F[i].col, vals |-> DefaultSort(F[i].vals)]
                   ELSE F[i]]
      relevant == SortByColumn(SelectSeq(sorted, joined))
  IN  [key |-> Join([i \in 1..Len(relevant) |->
                       ColumnChars(relevant[i].col) \o <<58>>
                         \o Join([j \in 1..Len(relevant[i].vals) |->
                                    Chars(relevant[i].vals[j])], <<44>>)],
                    <<124>>),
       filters |-> sorted]

\* `options_${column}_${filterKey}`
CFMOptionsKey(column, filterKey) ==
  <<111, 112, 116, 105, 111, 110, 115, 95>> \o ColumnChars(column) \o <<95>> \o filterKey

\* `count_${filterKey}`
CFMCountKey(filterKey) == <<99, 111, 117, 110, 116, 95>> \o filterKey

\* `${column}_index`
CFMIndexKey(column) == ColumnChars(column) \o <<95, 105, 110, 100, 101, 120>>

\* Map.delete(key)
MapDelete(m, key) == SelectSeq(m, LAMBDA e : e.key # key)

\* A CacheEntry.  storedAt is history: the time setCacheEntry stored the
\* entry, which no field of the source keeps and no code of the model reads.
CacheEntry(entryData, timestamp, hitCount) ==
  [data |-> entryData, timestamp |-> timestamp, hitCount |-> hitCount, size |-> Len(entryData),
   storedAt |-> timestamp]

\* getCachedEntry(key) at time t: the entry if it is there and fresh, and
\* the cache as the call leaves it.
getCachedEntry(cache, key, t) ==
  IF ~MapHas(cache, key) THEN [found |-> FALSE, cache |-> cache]
  ELSE LET entry == MapGet(cache, key)
       IN  IF t - entry.timestamp > FILTER_CACHE_TTL
           THEN [found |-> FALSE, cache |-> MapDelete(cache, key)]
           ELSE LET hit == [entry EXCEPT !.hitCount = @ + 1, !.timestamp = t]
                IN  [found |-> TRUE, entry |-> hit, cache |-> MapSet(cache, key, hit)]

\* The forEach of evictLRU from entry i on, lru the candidate so far (none
\* while lruHits is Infinity).
RECURSIVE LRUScan(_, _, _)
LRUScan(cache, i, lru) ==
  IF i > Len(cache) THEN lru
  ELSE LET entry == cache[i].val
           better == \/ lru.none
                     \/ entry.hitCount < lru.hits
                     \/ entry.hitCount = lru.hits /\ entry.timestamp < lru.time
       IN  LRUScan(cache, i + 1,
                   IF better
                   THEN [none |-> FALSE, key |-> cache[i].key, time |-> entry.timestamp,
                         hits |-> entry.hitCount]
                   ELSE lru)

\* evictLRU() at time t
evictLRU(cache, t) ==
  LET lru == LRUScan(cache, 1, [none |-> TRUE, key |-> <<>>, time |-> t, hits |-> 0])
  IN  IF lru.none THEN cache ELSE MapDelete(cache, lru.key)

\* setCacheEntry(key, data) at time t
setCacheEntry(cache, key, entryData, t) ==
  LET room == IF Len(cache) >= CFM_CACHE_SIZE_LIMIT THEN evictLRU(cache, t) ELSE cache
  IN  MapSet(room, key, CacheEntry(entryData, t, 1))

\* One step of activeFilters.sort by values.length: a stable insertion.
RECURSIVE InsertByLength(_, _)
InsertByLength(sorted, e) ==
  IF sorted = <<>> THEN <<e>>
  ELSE IF Len(e.vals) < Len(Head(sorted).vals) THEN <<e>> \o sorted
  ELSE <<Head(sorted)>> \o InsertByLength(Tail(sorted), e)

RECURSIVE SortByLength(_)
SortByLength(entries) ==
  IF entries = <<>> THEN <<>>
  ELSE InsertByLength(SortByLength(SubSeq(entries, 1, Len(entries) - 1)),
                      entries[Len(entries)])

\* applyFiltersToChunk that lets every row of the chunk through
applyFiltersToChunkAll(chunk, F, excludeColumn) == chunk

\* applyFiltersToChunk(chunk, filters, excludeColumn)
applyFiltersToChunk(chunk, F, excludeColumn) ==
  LET activeFilters ==
        SortByLength(SelectSeq(F, LAMBDA e : e.col # excludeColumn /\ Len(e.vals) > 0))
  IN  IF Len(activeFilters) = 0 THEN chunk
      ELSE SelectSeq(chunk, LAMBDA row :
             \A i \in 1..Len(activeFilters) :
               JSString(Field(row, activeFilters[i].col)) \in Range(activeFilters[i].vals))

\* The strings of a column over rows, added to a Set.
RECURSIVE AddColumnValues(_, _, _)
AddColumnValues(uniqueValues, rows, column) ==
  IF rows = <<>> THEN uniqueValues
  ELSE AddColumnValues(SetAdd(uniqueValues, JSString(Field(Head(rows), column))),
                       Tail(rows), column)

\* processChunksSync(startChunk, endChunk, column, filters, uniqueValues) on
\* the generator g, aborted the flag of this.abortController.signal.
\* generateChunk returns the same rows whether or not the chunk is cached.
RECURSIVE processChunksSync(_, _, _, _, _, _, _)
processChunksSync(g, startChunk, endChunk, column, F, uniqueValues, aborted) ==
  IF startChunk > endChunk \/ aborted THEN uniqueValues
  ELSE LET chunk == generateChunk(g.totalCount, g.chunkSize, startChunk)
           filteredChunk == applyFiltersToChunk(chunk, F, column)
       IN  processChunksSync(g, startChunk + 1, endChunk, column, F,
                             AddColumnValues(uniqueValues, filteredChunk, column), aborted)

\* getOptionsFromIndex(column, filters) over this.indexCache
getOptionsFromIndex(cfmIndexCache, column, F) ==
  IF ~MapHas(cfmIndexCache, CFMIndexKey(column)) THEN Null
  ELSE IF Len(SelectSeq(F, LAMBDA e : e.col # column /\ Len(e.vals) > 0)) = 0
       THEN MapKeys(MapGet(cfmIndexCache, CFMIndexKey(column)))
       ELSE Null

\* The count loop of getFilteredCount from chunk i on.
RECURSIVE CFMCountChunks(_, _, _)
CFMCountChunks(g, F, i) ==
  IF i >= getTotalChunks(g.totalCount, g.chunkSize) THEN 0
  ELSE Len(applyFiltersToChunk(generateChunk(g.totalCount, g.chunkSize, i), F, NoColumn))
         + CFMCountChunks(g, F, i + 1)

\* ------------------------------------------------------------ variables
VARIABLES
  data,          \* state.data of the filter contexts
  filters,       \* state.filters
  filteredData,  \* state.filteredData, the rows as positions of state.data
  filterManager, \* UltraFastFilterContext: state.filterManager (NoManager for null)
  indexCache,    \* filterLogic: the module-level indexCache
  generator,     \* chunked context: state.dataGenerator, [totalCount, chunkSize] or NoGenerator
  ofm,           \* chunked context: state.filterManager, an OptimizedFilterManager
  totalCount,    \* chunked context: state.totalCount
  filteredCount, \* chunked context: state.filteredCount
  instance,      \* the UltraOptimizedDataGenerator singleton
  cfm,           \* a ChunkedFilterManager: filterCache, indexCache, abortController
  tasks,         \* its processChunksAsync calls in flight, oldest first
  now,           \* Date.now()
  lru,           \* ChunkedDataGenerator: cache (an LRUCache), prefetchQueue, loadingChunks
  pagination,    \* FilterContext: state.pagination
  pager,         \* usePagination: currentPage and pageSize
  batch          \* applyFiltersBatch: batchSize, processed, results, and whether the promise resolved

cfmVars == <<cfm, tasks, now, lru>>

vars == <<data, filters, filteredData, filterManager, indexCache,
          generator, ofm, totalCount, filteredCount, instance, cfm, tasks, now, lru,
          pagination, pager, batch>>

\* initialState.pagination with no rows, and the useState values of usePagination
InitialPagination == [currentPage |-> 1, pageSize |-> PAGE_SIZE, totalItems |-> 0, totalPages |-> 0]
InitialPager == [currentPage |-> 1, pageSize |-> PAGE_SIZE]

\* No call of applyFiltersBatch in flight.
NoBatch == [batchSize |-> 0, processed |-> 0, results |-> <<>>, resolved |-> FALSE]

\* new ChunkedFilterManager(dataGenerator): abortController names the
\* AbortController the field holds, aborted the controllers abort() was
\* called on.
NewCFM == [filterCache |-> <<>>, indexCache |-> <<>>, abortController |-> 0, aborted |-> {}]

\* new LRUCache(MAX_CACHE_SIZE) with the generator's empty queues
\* rangeError records that the last call into the generator ended in
\* `RangeError: Maximum call stack size exceeded`.
NewChunkCache ==
  [cache |-> <<>>, accessOrder |-> <<>>, prefetchQueue |-> {}, loadingChunks |-> {},
   rangeError |-> FALSE]

NoManager == [data |-> <<>>, dataIndex |-> <<>>, filterCache |-> <<>>, isInitialized |-> FALSE]
NoGenerator == [totalCount |-> 0, chunkSize |-> 0]

RECURSIVE SeqsUpTo(_, _)
SeqsUpTo(S, n) ==
  IF n = 0 THEN {<<>>}
  ELSE LET shorter == SeqsUpTo(S, n - 1)
       IN  shorter \cup {Append(q, x) : q \in {t \in shorter : Len(t) = n - 1}, x \in S}

Datasets == SeqsUpTo(Rows, MaxRows)

\* The state every context and singleton starts in.
Init ==
  /\ data = <<>>
  /\ filters = <<>>
  /\ filteredData = <<>>
  /\ filterManager = NoManager
  /\ indexCache = <<>>
  /\ generator = NoGenerator
  /\ ofm = NewOFM(0, 0)
  /\ totalCount = 0
  /\ filteredCount = 0
  /\ instance = NewGenerator
  /\ cfm = NewCFM
  /\ tasks = <<>>
  /\ now = 0
  /\ lru = NewChunkCache
  /\ pagination = InitialPagination
  /\ pager = InitialPager
  /\ batch = NoBatch

\* --------------------------------- UltraFastFilterContext: filterReducer
SET_DATA(payload) ==
  /\ data' = payload
  /\ filteredData' = Positions(Len(payload))
  /\ filterManager' = UFManager(payload)
  /\ UNCHANGED <<batch, pagination, pager, cfm, tasks, now, lru, filters, indexCache, generator, ofm, totalCount, filteredCount, instance>>

UPDATE_FILTER(c, values) ==
  LET newFilters == FilterPut(filters, c, values)
  IN  /\ filters' = newFilters
      /\ filteredData' = IF filterManager.isInitialized
                         THEN UFgetFilteredData(filterManager, newFilters)
                         ELSE Positions(Len(data))
      /\ UNCHANGED <<batch, pagination, pager, cfm, tasks, now, lru, data, filterManager, indexCache, generator, ofm, totalCount,
                     filteredCount, instance>>

CLEAR_FILTER(c) ==
  LET remainingFilters == FilterWithout(filters, c)
  IN  /\ filters' = remainingFilters
      /\ filteredData' = IF filterManager.isInitialized
                         THEN UFgetFilteredData(filterManager, remainingFilters)
                         ELSE Positions(Len(data))
      /\ UNCHANGED <<batch, pagination, pager, cfm, tasks, now, lru, data, filterManager, indexCache, generator, ofm, totalCount,
                     filteredCount, instance>>

CLEAR_ALL_FILTERS ==
  /\ filters' = <<>>
  /\ filteredData' = Positions(Len(data))
  /\ UNCHANGED <<batch, pagination, pager, cfm, tasks, now, lru, data, filterManager, indexCache, generator, ofm, totalCount,
                 filteredCount, instance>>

Next ==
  \/ \E payload \in Datasets : SET_DATA(payload)
  \/ \E c \in Columns : \E values \in SelectionsOf(c) : UPDATE_FILTER(c, values)
  \/ \E c \in Columns : CLEAR_FILTER(c)
  \/ CLEAR_ALL_FILTERS

Spec == Init /\ [][Next]_vars

\* ------------------------------------------- FilterContext: filterReducer
\* The datasets and selections dispatched to the FilterContext.
FLRows == {MkRow(1, 0), MkRow(1, 1), MkRow(11, 1)}
FLDatasets == SeqsUpTo(FLRows, FLMaxRows)
\* The columns a filter state may name: those of the rows and "category",
\* which no row of these datasets holds and no index therefore covers.
FLFilterColumns == Columns \cup {"category"}
FLSelectionsOf(c) ==
  CASE c = "number" -> {<<>>, <<Num(1)>>, <<Num(11), Num(1)>>}
    [] c = "category" -> {<<Txt(1)>>}
    [] OTHER -> {<<>>, <<Num(0)>>, <<Num(1), Num(0)>>}

FL_SET_DATA(payload) ==
  LET applied == applyFilters(payload, filters, indexCache)
  IN  /\ data' = payload
      /\ filteredData' = applied.rows
      /\ indexCache' = applied.cache
      /\ pagination' = [pagination EXCEPT
                          !.totalItems = Len(applied.rows),
                          !.totalPages = CeilDiv(Len(applied.rows), pagination.pageSize)]
      /\ UNCHANGED <<batch, pager, cfm, tasks, now, lru, filters, filterManager, generator, ofm, totalCount, filteredCount,
                     instance>>

FL_UPDATE_FILTER(c, values) ==
  LET newFilters == FilterPut(filters, c, values)
      applied == applyFilters(data, newFilters, indexCache)
  IN  /\ filters' = newFilters
      /\ filteredData' = applied.rows
      /\ indexCache' = applied.cache
      /\ pagination' = [pagination EXCEPT
                          !.currentPage = 1,
                          !.totalItems = Len(applied.rows),
                          !.totalPages = CeilDiv(Len(applied.rows), pagination.pageSize)]
      /\ UNCHANGED <<batch, pager, cfm, tasks, now, lru, data, filterManager, generator, ofm, totalCount, filteredCount, instance>>

FL_CLEAR_FILTER(c) ==
  LET newFilters == FilterWithout(filters, c)
      applied == applyFilters(data, newFilters, indexCache)
  IN  /\ filters' = newFilters
      /\ filteredData' = applied.rows
      /\ indexCache' = applied.cache
      /\ pagination' = [pagination EXCEPT
                          !.currentPage = 1,
                          !.totalItems = Len(applied.rows),
                          !.totalPages = CeilDiv(Len(applied.rows), pagination.pageSize)]
      /\ UNCHANGED <<batch, pager, cfm, tasks, now, lru, data, filterManager, generator, ofm, totalCount, filteredCount, instance>>

FL_CLEAR_ALL_FILTERS ==
  /\ filters' = <<>>
  /\ filteredData' = Positions(Len(data))
  /\ pagination' = [pagination EXCEPT
                      !.currentPage = 1,
                      !.totalItems = Len(data),
                      !.totalPages = CeilDiv(Len(data), pagination.pageSize)]
  /\ UNCHANGED <<batch, pager, cfm, tasks, now, lru, data, indexCache, filterManager, generator, ofm, totalCount, filteredCount,
                 instance>>

NextFL ==
  \/ \E payload \in FLDatasets : FL_SET_DATA(payload)
  \/ \E c \in FLFilterColumns : \E values \in FLSelectionsOf(c) : FL_UPDATE_FILTER(c, values)
  \/ \E c \in FLFilterColumns : FL_CLEAR_FILTER(c)
  \/ FL_CLEAR_ALL_FILTERS

SpecFL == Init /\ [][NextFL]_vars

\* ------------------------------- chunked context: chunkedDataReducer
\* The payloads of INITIALIZE_GENERATOR and UPDATE_FILTERS: datasets large
\* enough to leave a chunk unloaded after the preload, and filter states
\* with one value, an empty list, a value no row holds and two columns.
TotalCounts == (MaxTotal - 1)..MaxTotal
ChunkSizes == {1, 2}
ChunkFilterStates ==
  { <<>>,
    <<[col |-> "status", vals |-> <<Pending>>]>>,
    <<[col |-> "status", vals |-> <<>>]>>,
    <<[col |-> "mod3", vals |-> <<Num(9)>>]>>,
    <<[col |-> "status", vals |-> <<Pending>>],
      [col |-> "number", vals |-> <<Num(1), Num(5)>>]>> }
\* The columns whose dropdowns ask for options.
OptionColumns == {"number", "status"}

INITIALIZE_GENERATOR(total, size) ==
  LET chunk == GeneratorChunkSize(total, size)
      firstChunk == generateChunk(total, chunk, 0)
      first == IndexChunk(NewOFM(total, size), IndexedColumns, firstChunk, 0)
      chunksToPreload == Min2(2, getTotalChunks(total, chunk) - 1)
  IN  /\ generator' = [totalCount |-> total, chunkSize |-> chunk]
      /\ ofm' = Preload(first, total, chunk, 1, chunksToPreload)
      /\ totalCount' = total
      /\ filteredCount' = total
      /\ UNCHANGED <<batch, pagination, pager, cfm, tasks, now, lru, data, filters, filteredData, filterManager, indexCache, instance>>

\* loadChunk(chunkIndex) with its LOAD_CHUNK dispatch; loadedData, columns
\* and cacheInfo, which no query reads, are not part of the state.
loadChunk(chunkIndex) ==
  /\ generator # NoGenerator
  /\ chunkIndex < getTotalChunks(generator.totalCount, generator.chunkSize)
  /\ ofm' = IndexChunk(ofm, IndexedColumns,
                       generateChunk(generator.totalCount, generator.chunkSize, chunkIndex),
                       chunkIndex * generator.chunkSize)
  /\ UNCHANGED <<batch, pagination, pager, cfm, tasks, now, lru, data, filters, filteredData, filterManager, indexCache, generator,
                 totalCount, filteredCount, instance>>

\* state.filterManager?.getFilteredCount(newFilters) || state.totalCount
UPDATE_FILTERS(payload) ==
  LET counted == OFMgetFilteredCount(ofm, payload)
  IN  /\ filters' = payload
      /\ filteredCount' = IF generator = NoGenerator \/ counted.count = 0
                          THEN totalCount ELSE counted.count
      /\ ofm' = IF generator = NoGenerator THEN ofm ELSE counted.m
      /\ UNCHANGED <<batch, pagination, pager, cfm, tasks, now, lru, data, filteredData, filterManager, indexCache, generator, totalCount,
                     instance>>

CLEAR_FILTERS ==
  /\ filters' = <<>>
  /\ filteredCount' = totalCount
  /\ UNCHANGED <<batch, pagination, pager, cfm, tasks, now, lru, data, filteredData, filterManager, indexCache, generator, ofm, totalCount,
                 instance>>

\* getFilterOptions(column) of the context: the manager's optionsCache is
\* filled by the call.
getFilterOptions(column) ==
  /\ generator # NoGenerator
  /\ Len(ofm.optionsCache) < MaxOptionsCached
       \/ MapHas(ofm.optionsCache, OFMOptionsKey(column, filters))
  /\ ofm' = OFMgetFilterOptions(ofm, column, filters).m
  /\ UNCHANGED <<batch, pagination, pager, cfm, tasks, now, lru, data, filters, filteredData, filterManager, indexCache, generator,
                 totalCount, filteredCount, instance>>

NextChunked ==
  \/ \E total \in TotalCounts : \E size \in ChunkSizes : INITIALIZE_GENERATOR(total, size)
  \/ \E chunkIndex \in 0..(MaxTotal - 1) : loadChunk(chunkIndex)
  \/ \E payload \in ChunkFilterStates : UPDATE_FILTERS(payload)
  \/ CLEAR_FILTERS
  \/ \E column \in OptionColumns : getFilterOptions(column)

SpecChunked == Init /\ [][NextChunked]_vars

\* ------------------------------------ UltraOptimizedDataGenerator singleton
GenerateLargeDataset(count) ==
  /\ instance' = generateLargeDataset(instance, count)
  /\ UNCHANGED <<batch, pagination, pager, cfm, tasks, now, lru, data, filters, filteredData, filterManager, indexCache, generator, ofm,
                 totalCount, filteredCount>>

ClearCache ==
  /\ instance' = NewGenerator
  /\ UNCHANGED <<batch, pagination, pager, cfm, tasks, now, lru, data, filters, filteredData, filterManager, indexCache, generator, ofm,
                 totalCount, filteredCount>>

NextGen ==
  \/ \E count \in 1..MaxCount : GenerateLargeDataset(count)
  \/ ClearCache

SpecGen == Init /\ [][NextGen]_vars

\* ------------------------------------------------ the three index builders
\* Every dataset of Datasets, cut into chunks of one or two rows, with the
\* builders applied to it in any order.
ChunkOf(d, size, chunkIndex) ==
  SubSeq(d, chunkIndex * size + 1, Min2(chunkIndex * size + size, Len(d)))

InitIndex ==
  /\ data \in Datasets
  /\ \E size \in ChunkSizes :
        /\ generator = [totalCount |-> Len(data), chunkSize |-> size]
        /\ ofm = NewOFM(Len(data), size)
  /\ filters = <<>>
  /\ filteredData = <<>>
  /\ filterManager = NoManager
  /\ indexCache = <<>>
  /\ totalCount = 0
  /\ filteredCount = 0
  /\ instance = NewGenerator
  /\ cfm = NewCFM
  /\ tasks = <<>>
  /\ now = 0
  /\ lru = NewChunkCache
  /\ pagination = InitialPagination
  /\ pager = InitialPager
  /\ batch = NoBatch

\* new UltraFastFilterManager(data).initialize()
Initialize ==
  /\ filterManager' = UFManager(data)
  /\ UNCHANGED <<batch, pagination, pager, cfm, tasks, now, lru, data, filters, filteredData, indexCache, generator, ofm, totalCount,
                 filteredCount, instance>>

\* buildOptimizedFilterIndex(data, cacheKey)
BuildOptimizedFilterIndex ==
  /\ indexCache' = buildOptimizedFilterIndex(data, CacheKeyOf(data), indexCache).cache
  /\ UNCHANGED <<batch, pagination, pager, cfm, tasks, now, lru, data, filters, filteredData, filterManager, generator, ofm, totalCount,
                 filteredCount, instance>>

\* buildIndex(column, chunk, startIndex) for every column of a chunk, then
\* cacheData(chunk, startIndex)
BuildIndexOfChunk(chunkIndex) ==
  /\ chunkIndex < getTotalChunks(generator.totalCount, generator.chunkSize)
  /\ ofm' = IndexChunk(ofm, ColumnOrder, ChunkOf(data, generator.chunkSize, chunkIndex),
                       chunkIndex * generator.chunkSize)
  /\ UNCHANGED <<batch, pagination, pager, cfm, tasks, now, lru, data, filters, filteredData, filterManager, indexCache, generator,
                 totalCount, filteredCount, instance>>

NextIndex ==
  \/ Initialize
  \/ BuildOptimizedFilterIndex
  \/ \E chunkIndex \in 0..(MaxRows - 1) : BuildIndexOfChunk(chunkIndex)

SpecIndex == InitIndex /\ [][NextIndex]_vars

\* --------------------------------------------------- ChunkedFilterManager
\* The manager serves a generator of CFMChunks chunks of one row.
InitCFM ==
  /\ data = <<>>
  /\ filters = <<>>
  /\ filteredData = <<>>
  /\ filterManager = NoManager
  /\ indexCache = <<>>
  /\ generator = [totalCount |-> CFMChunks, chunkSize |-> 1]
  /\ ofm = NewOFM(0, 0)
  /\ totalCount = 0
  /\ filteredCount = 0
  /\ instance = NewGenerator
  /\ cfm = NewCFM
  /\ tasks = <<>>
  /\ now = 0
  /\ lru = NewChunkCache
  /\ pagination = InitialPagination
  /\ pager = InitialPager
  /\ batch = NoBatch

\* The filter objects a caller passes: none, and a selection made out of
\* alphabetical order.
CFMFilterStates ==
  {<<>>, <<[col |-> "status", vals |-> <<Pending, Completed>>]>>}
CFMColumns == {"modulo 3"}

\* The caller replaces its filter object.
CFMSetFilters(F) ==
  /\ F # filters
  /\ filters' = F
  /\ UNCHANGED <<batch, pagination, pager, cfm, tasks, now, lru, data, filteredData, filterManager, indexCache,
                 generator, ofm, totalCount, filteredCount, instance>>

\* A processChunksAsync call up to its first await; controller names the
\* AbortController that was in this.abortController when the scan started.
NewTask(startChunk, endChunk, column, F, cacheKey) ==
  [batchStart |-> startChunk, endChunk |-> endChunk, column |-> column, filters |-> F,
   cacheKey |-> cacheKey, uniqueValues |-> <<>>, controller |-> cfm.abortController]

Aborted == cfm.abortController \in cfm.aborted

\* manager.getFilterOptions(column, filters)
CFMGetFilterOptions(column) ==
  LET made == createFilterKey(filters, column)
      cacheKey == CFMOptionsKey(column, made.key)
      cached == getCachedEntry(cfm.filterCache, cacheKey, now)
      indexResult == getOptionsFromIndex(cfm.indexCache, column, made.filters)
      totalChunks == getTotalChunks(generator.totalCount, generator.chunkSize)
      immediateChunks == Min2(IMMEDIATE_CHUNKS, totalChunks)
      uniqueValues == processChunksSync(generator, 0, immediateChunks - 1, column,
                                        made.filters, <<>>, Aborted)
  IN  /\ filters' = made.filters
      /\ IF cached.found
         THEN /\ cached.entry.hitCount <= MaxHits
              /\ cfm' = [cfm EXCEPT !.filterCache = cached.cache]
              /\ tasks' = tasks
         ELSE IF indexResult # Null
         THEN /\ cfm' = [cfm EXCEPT !.filterCache =
                           setCacheEntry(cached.cache, cacheKey, indexResult, now)]
              /\ tasks' = tasks
         ELSE /\ cfm' = [cfm EXCEPT !.filterCache =
                           setCacheEntry(cached.cache, cacheKey, uniqueValues, now)]
              /\ IF immediateChunks < totalChunks /\ ~Aborted
                 THEN /\ Len(tasks) < MaxTasks
                      /\ tasks' = Append(tasks, NewTask(immediateChunks, totalChunks - 1,
                                                        column, made.filters, cacheKey))
                 ELSE tasks' = tasks
      /\ UNCHANGED <<batch, pagination, pager, now, lru, data, filteredData, filterManager, indexCache,
                     generator, ofm, totalCount, filteredCount, instance>>

\* One turn of the loop of processChunksAsync: the idle callback scans the
\* batch, the progressive results go into the entry under cacheKey if there
\* is one, and the loop reads the abort flag before the next batch.
ScanBatch(i) ==
  /\ i \in 1..Len(tasks)
  /\ LET t == tasks[i]
         batchEnd == Min2(t.batchStart + BACKGROUND_BATCH_SIZE - 1, t.endChunk)
         uniqueValues == processChunksSync(generator, t.batchStart, batchEnd, t.column,
                                           t.filters, t.uniqueValues, Aborted)
         existing == getCachedEntry(cfm.filterCache, t.cacheKey, now)
         next == t.batchStart + BACKGROUND_BATCH_SIZE
     IN  /\ cfm' = [cfm EXCEPT !.filterCache =
                      IF existing.found
                      THEN MapSet(existing.cache, t.cacheKey,
                                  [existing.entry EXCEPT
                                     !.data = SetAddAll(@, uniqueValues), !.timestamp = now])
                      ELSE existing.cache]
         /\ tasks' = IF next <= t.endChunk /\ ~Aborted
                     THEN [tasks EXCEPT ![i] = [t EXCEPT !.batchStart = next,
                                                         !.uniqueValues = uniqueValues]]
                     ELSE SubSeq(tasks, 1, i - 1) \o SubSeq(tasks, i + 1, Len(tasks))
  /\ UNCHANGED <<batch, pagination, pager, filters, now, lru, data, filteredData, filterManager, indexCache,
                 generator, ofm, totalCount, filteredCount, instance>>

\* manager.getFilteredCount(filters)
CFMGetFilteredCount ==
  LET made == createFilterKey(filters, NoColumn)
      cacheKey == CFMCountKey(made.key)
      cached == getCachedEntry(cfm.filterCache, cacheKey, now)
      count == CFMCountChunks(generator, made.filters, 0)
  IN  /\ filters' = made.filters
      /\ IF cached.found
         THEN /\ cached.entry.hitCount <= MaxHits
              /\ cfm' = [cfm EXCEPT !.filterCache = cached.cache]
         ELSE IF Len(made.filters) = 0
         THEN cfm' = [cfm EXCEPT !.filterCache = cached.cache]
         ELSE cfm' = [cfm EXCEPT !.filterCache =
                        setCacheEntry(cached.cache, cacheKey, <<Num(count)>>, now)]
      /\ UNCHANGED <<batch, pagination, pager, tasks, now, lru, data, filteredData, filterManager, indexCache,
                     generator, ofm, totalCount, filteredCount, instance>>

\* The rows getFilteredDataRange(startIndex, endIndex, filters) returns, as
\* positions of the dataset: the chunks streamed from startChunk on.
RECURSIVE CFMStreamChunks(_, _, _, _, _, _)
CFMStreamChunks(g, F, chunkIndex, skippedCount, startIndex, room) ==
  IF chunkIndex >= getTotalChunks(g.totalCount, g.chunkSize) \/ room <= 0 THEN <<>>
  ELSE LET filteredChunk ==
             applyFiltersToChunk(generateChunk(g.totalCount, g.chunkSize, chunkIndex), F, NoColumn)
           skipped == Min2(Len(filteredChunk), startIndex - skippedCount)
           taken == SubSeq(filteredChunk, skipped + 1, Min2(Len(filteredChunk), skipped + room))
       IN  taken \o CFMStreamChunks(g, F, chunkIndex + 1, skippedCount + skipped,
                                    startIndex, room - Len(taken))

getFilteredDataRange(g, startIndex, endIndex, F) ==
  IF Len(F) = 0
  THEN [j \in 1..(Min2(endIndex, g.totalCount - 1) - startIndex + 1) |-> ChunkRow(startIndex + j - 1)]
  ELSE CFMStreamChunks(g, F, startIndex \div g.chunkSize, 0, startIndex,
                       endIndex - startIndex + 1)

\* manager.getFilteredDataRange(startIndex, endIndex, filters): no field of
\* the manager and no list of the filters is written.
CFMGetFilteredDataRange(startIndex, endIndex) ==
  /\ Len(getFilteredDataRange(generator, startIndex, endIndex, filters)) >= 0
  /\ UNCHANGED vars

\* The setInterval callback of startCacheCleanup
CFMCacheCleanup ==
  /\ cfm' = [cfm EXCEPT !.filterCache =
               SelectSeq(@, LAMBDA e : ~(now - e.val.timestamp > FILTER_CACHE_TTL))]
  /\ UNCHANGED <<batch, pagination, pager, filters, tasks, now, lru, data, filteredData, filterManager, indexCache,
                 generator, ofm, totalCount, filteredCount, instance>>

\* clearCache() on the manager m
clearCache(m) ==
  [m EXCEPT !.filterCache = <<>>, !.indexCache = <<>>,
            !.aborted = @ \cup {m.abortController},
            !.abortController = @ + 1]

CFMClearCache ==
  /\ cfm.abortController < MaxClears
  /\ cfm' = clearCache(cfm)
  /\ UNCHANGED <<batch, pagination, pager, filters, tasks, now, lru, data, filteredData, filterManager, indexCache,
                 generator, ofm, totalCount, filteredCount, instance>>

\* destroy(): this.abortController.abort(); this.clearCache()
CFMDestroy ==
  /\ cfm.abortController < MaxClears
  /\ cfm' = clearCache([cfm EXCEPT !.aborted = @ \cup {cfm.abortController}])
  /\ UNCHANGED <<batch, pagination, pager, filters, tasks, now, lru, data, filteredData, filterManager, indexCache,
                 generator, ofm, totalCount, filteredCount, instance>>

\* Time passes.
Tick ==
  /\ now < MaxNow
  /\ now' = now + 1
  /\ UNCHANGED <<batch, pagination, pager, filters, cfm, tasks, lru, data, filteredData, filterManager, indexCache,
                 generator, ofm, totalCount, filteredCount, instance>>

NextCFM ==
  \/ \E F \in CFMFilterStates : CFMSetFilters(F)
  \/ \E column \in CFMColumns : CFMGetFilterOptions(column)
  \/ CFMGetFilteredCount
  \/ CFMGetFilteredDataRange(1, 2)
  \/ \E i \in 1..MaxTasks : ScanBatch(i)
  \/ CFMCacheCleanup
  \/ CFMClearCache
  \/ CFMDestroy
  \/ Tick

SpecCFM == InitCFM /\ [][NextCFM]_vars

\* requestIdleCallback(..., { timeout: 50 }) runs its callback within the
\* timeout, so every scan in flight takes its next turn;
\* the runs followed are those without clearCache() and destroy(), the clock
\* read again only after a pause longer than the time an entry lives.
Pause ==
  /\ now + FILTER_CACHE_TTL + 1 <= MaxNow
  /\ now' = now + FILTER_CACHE_TTL + 1
  /\ UNCHANGED <<batch, pagination, pager, filters, cfm, tasks, lru, data, filteredData, filterManager, indexCache,
                 generator, ofm, totalCount, filteredCount, instance>>

NextCFMFair ==
  \/ \E F \in CFMFilterStates : CFMSetFilters(F)
  \/ \E column \in CFMColumns : CFMGetFilterOptions(column)
  \/ CFMGetFilteredCount
  \/ CFMGetFilteredDataRange(1, 2)
  \/ \E i \in 1..MaxTasks : ScanBatch(i)
  \/ CFMCacheCleanup
  \/ Pause

SpecCFMFair ==
  InitCFM /\ [][NextCFMFair]_vars /\ \A i \in 1..MaxTasks : WF_vars(ScanBatch(i))

\* ------------------------------------- ChunkedDataGenerator: the chunk cache
\* Scaled: the source keeps MAX_CACHE_SIZE = 100 chunks and cleans up above
\* MEMORY_THRESHOLD = 100 MB, at 200 bytes a row; the model keeps three
\* chunks of one row, which stay below the threshold as the default chunks
\* of 100 rows do.
MAX_CACHE_SIZE == 3
PREFETCH_DISTANCE == 3
MEMORY_THRESHOLD == 1000

\* LRUCache.get(key) on c: whether the key is there, and the cache after
\* the key has moved to the end of accessOrder.
LRUGet(c, key) ==
  IF key \notin Range(c.cache) THEN [hit |-> FALSE, c |-> c]
  ELSE [hit |-> TRUE,
        c |-> [c EXCEPT !.accessOrder = Append(SelectSeq(@, LAMBDA k : k # key), key)]]

\* LRUCache.evictLRU()
LRUEvict(c) ==
  IF Len(c.accessOrder) = 0 THEN c
  ELSE [c EXCEPT !.cache = SelectSeq(@, LAMBDA k : k # Head(c.accessOrder)),
                 !.accessOrder = Tail(@)]

\* LRUCache.set(key, value): the keys of the Map in insertion order.
LRUSet(c, key) ==
  IF key \in Range(c.cache) THEN c
  ELSE LET room == IF Len(c.cache) >= MAX_CACHE_SIZE THEN LRUEvict(c) ELSE c
       IN  [room EXCEPT !.cache = Append(@, key), !.accessOrder = Append(@, key)]

\* LRUCache.clear()
LRUClear(c) == [c EXCEPT !.cache = <<>>, !.accessOrder = <<>>]

\* this.memoryUsage as updateMemoryUsage sets it
memoryUsage(c, g) == Len(c.cache) * g.chunkSize * 200

\* Math.floor(MAX_CACHE_SIZE * 0.7)
targetSize == (MAX_CACHE_SIZE * 7) \div 10

\* The while loop of performMemoryCleanup: its body runs at most once and
\* ends with cache.set(-1, []), cache.clear() and break.
CleanupLoop(c) == IF Len(c.cache) > targetSize THEN LRUClear(LRUSet(c, -1)) ELSE c

\* updateMemoryUsage() at call depth `depth`: above the threshold it calls
\* performMemoryCleanup(), which runs its loop and calls updateMemoryUsage()
\* again; a call chain deeper than the stack ends in a RangeError.
RECURSIVE updateMemoryUsage(_, _, _)
updateMemoryUsage(c, g, depth) ==
  IF memoryUsage(c, g) > MEMORY_THRESHOLD
  THEN IF depth >= MaxStack THEN [c EXCEPT !.rangeError = TRUE]
       ELSE updateMemoryUsage(CleanupLoop(c), g, depth + 1)
  ELSE c

\* performMemoryCleanup()
performMemoryCleanup(c, g) == updateMemoryUsage(CleanupLoop(c), g, 1)

\* cacheChunk(chunkIndex, chunkData)
cacheChunk(c, g, chunkIndex) == updateMemoryUsage(LRUSet(c, chunkIndex), g, 0)

\* The chunks triggerPrefetch(currentChunk) looks at, in its order: the
\* next PREFETCH_DISTANCE ones, then the previous PREFETCH_DISTANCE / 2.
PrefetchCandidates(currentChunk) ==
  [i \in 1..PREFETCH_DISTANCE |-> currentChunk + i]
    \o [i \in 1..(PREFETCH_DISTANCE \div 2) |-> currentChunk - i]

\* The two loops of triggerPrefetch: each candidate inside the dataset is
\* read from the cache, and queued if it is neither cached nor queued.
RECURSIVE CollectPrefetch(_, _, _, _)
CollectPrefetch(c, g, candidates, prefetchChunks) ==
  IF candidates = <<>> THEN [c |-> c, prefetchChunks |-> prefetchChunks]
  ELSE LET chunk == Head(candidates)
           inside == chunk >= 0 /\ chunk < getTotalChunks(g.totalCount, g.chunkSize)
           got == LRUGet(c, chunk)
       IN  IF ~inside THEN CollectPrefetch(c, g, Tail(candidates), prefetchChunks)
           ELSE CollectPrefetch(got.c, g, Tail(candidates),
                                IF ~got.hit /\ chunk \notin c.prefetchQueue
                                THEN Append(prefetchChunks, chunk)
                                ELSE prefetchChunks)

\* triggerPrefetch(currentChunk): every collected chunk is queued, and
\* prefetchChunk starts loading it unless the memory usage is high.
triggerPrefetch(c, g, currentChunk) ==
  LET collected == CollectPrefetch(c, g, PrefetchCandidates(currentChunk), <<>>)
      loading == IF memoryUsage(c, g) > MEMORY_THRESHOLD THEN {}
                 ELSE Range(collected.prefetchChunks)
  IN  [collected.c EXCEPT !.prefetchQueue = @ \cup Range(collected.prefetchChunks),
                          !.loadingChunks = @ \cup loading]

\* Chunk sizes: one at which the cache never reaches the threshold, one at
\* which a full cache does, one at which a single chunk does.
LRUChunkSizes == {1, 2, 6}

InitLRU ==
  /\ data = <<>>
  /\ filters = <<>>
  /\ filteredData = <<>>
  /\ filterManager = NoManager
  /\ indexCache = <<>>
  /\ \E size \in LRUChunkSizes :
        generator = [totalCount |-> MaxTotal * size, chunkSize |-> size]
  /\ ofm = NewOFM(0, 0)
  /\ totalCount = 0
  /\ filteredCount = 0
  /\ instance = NewGenerator
  /\ cfm = NewCFM
  /\ tasks = <<>>
  /\ now = 0
  /\ lru = NewChunkCache
  /\ pagination = InitialPagination
  /\ pager = InitialPager
  /\ batch = NoBatch

\* generator.generateChunk(chunkIndex)
GenerateChunk(chunkIndex) ==
  /\ LET cached == LRUGet(lru, chunkIndex)
         called == [lru EXCEPT !.rangeError = FALSE]
         stored == cacheChunk(called, generator, chunkIndex)
     IN  lru' = IF cached.hit
                THEN triggerPrefetch([cached.c EXCEPT !.rangeError = FALSE], generator, chunkIndex)
                ELSE IF chunkIndex \in lru.loadingChunks THEN called
                ELSE IF stored.rangeError THEN stored
                ELSE triggerPrefetch(stored, generator, chunkIndex)
  /\ UNCHANGED <<batch, pagination, pager, cfm, tasks, now, data, filters, filteredData, filterManager, indexCache,
                 generator, ofm, totalCount, filteredCount, instance>>

\* prefetchChunk(chunkIndex) after its await: the chunk is cached and
\* leaves the two queues.
PrefetchDone(chunkIndex) ==
  /\ chunkIndex \in lru.loadingChunks
  /\ lru' = [cacheChunk([lru EXCEPT !.rangeError = FALSE], generator, chunkIndex) EXCEPT
               !.loadingChunks = @ \ {chunkIndex}, !.prefetchQueue = @ \ {chunkIndex}]
  /\ UNCHANGED <<batch, pagination, pager, cfm, tasks, now, data, filters, filteredData, filterManager, indexCache,
                 generator, ofm, totalCount, filteredCount, instance>>

\* The setInterval callback of startMemoryManagement
MemoryCleanup ==
  /\ LET cleaned == performMemoryCleanup([lru EXCEPT !.rangeError = FALSE], generator)
     IN  lru' = IF cleaned.rangeError THEN cleaned ELSE [cleaned EXCEPT !.prefetchQueue = {}]
  /\ UNCHANGED <<batch, pagination, pager, cfm, tasks, now, data, filters, filteredData, filterManager, indexCache,
                 generator, ofm, totalCount, filteredCount, instance>>

\* generator.clearCache()
GeneratorClearCache ==
  /\ lru' = [LRUClear(lru) EXCEPT !.prefetchQueue = {}, !.loadingChunks = {},
                                   !.rangeError = FALSE]
  /\ UNCHANGED <<batch, pagination, pager, cfm, tasks, now, data, filters, filteredData, filterManager, indexCache,
                 generator, ofm, totalCount, filteredCount, instance>>

NextLRU ==
  \/ \E chunkIndex \in 0..(MaxTotal - 1) : GenerateChunk(chunkIndex)
  \/ \E chunkIndex \in 0..(MaxTotal - 1) : PrefetchDone(chunkIndex)
  \/ MemoryCleanup
  \/ GeneratorClearCache

SpecLRU == InitLRU /\ [][NextLRU]_vars

\* =============================================================== properties
\* The reference: a row matches F when, for every column c with a non-empty
\* F[c], String(row[c]) is a member of F[c].
Matches(row, F) ==
  \A i \in 1..Len(F) :
     Len(F[i].vals) = 0 \/ JSString(Field(row, F[i].col)) \in Range(F[i].vals)

MatchingPositions(d, F) == {p \in 0..(Len(d) - 1) : Matches(RowAt(d, p), F)}

RECURSIVE SetToSortedSeq(_)
SetToSortedSeq(S) ==
  IF S = {} THEN <<>>
  ELSE LET m == CHOOSE x \in S : \A y \in S : x <= y
       IN  <<m>> \o SetToSortedSeq(S \ {m})

\* The positions the chunked manager holds rows for, and those among them
\* whose row matches F.
IndexedPositions == {ofm.dataCache[i].key : i \in 1..Len(ofm.dataCache)}
IndexedMatching(F) == {p \in IndexedPositions : Matches(MapGet(ofm.dataCache, p), F)}

\* C1 - Filter correctness: the rows the FilterContext holds as filteredData,
\* selected by applyFilters with its direct or its indexed strategy, are
\* exactly the rows of data that match the filter state.
C1_FilterCorrectness ==
  /\ Range(filteredData) = MatchingPositions(data, filters)
  /\ Len(filteredData) = Cardinality(Range(filteredData))

\* C2 - Dependent filtering: for every column the options of its
\* FilterDropdown are exactly the values held by a row matching the other
\* columns' filters, each with the number of such rows as its count.
ExpectedOptions(d, F, c) ==
  LET others == MatchingPositions(d, FilterWithout(F, c))
      holding(v) == {p \in others : JSString(Field(RowAt(d, p), c)) = v}
  IN  {Option(v, Cardinality(holding(v))) :
         v \in {JSString(Field(RowAt(d, p), c)) : p \in others}}

C2_DependentFiltering ==
  \A c \in Columns :
     LET options == optionsWithCounts(data, filters, c)
     IN  /\ Range(options) = ExpectedOptions(data, filters, c)
         /\ Len(options) = Cardinality(Range(options))

\* C3 - Facet consistency: for every column the counts of the options the
\* UltraFastFilterManager returns add up to the number of rows matching
\* the filter state with that column removed.
OptionCounts(options) == [j \in 1..Len(options) |-> options[j].count]

C3_FacetConsistency ==
  filterManager.isInitialized =>
    \A c \in Columns :
       SeqSum(OptionCounts(UFgetAvailableFilterOptions(filterManager, c, filters)))
         = Cardinality(MatchingPositions(data, FilterWithout(filters, c)))

\* C4 - An empty selection list means no constraint: the filtered rows and
\* the options of every column are the same for the filter state and for
\* the filter state without its keys whose list is empty.
C4_EmptyListNoConstraint ==
  filterManager.isInitialized =>
    /\ UFgetFilteredData(filterManager, filters)
         = UFgetFilteredData(filterManager, ActiveEntries(filters))
    /\ \A c \in Columns :
          UFgetAvailableFilterOptions(filterManager, c, filters)
            = UFgetAvailableFilterOptions(filterManager, c, ActiveEntries(filters))

\* C5 - Index completeness: in every per-column index the three builders
\* produce, the value sets are pairwise disjoint and their union is exactly
\* the set of row positions that have been indexed.
Complete(columnIndex, positions) ==
  /\ \A i, j \in 1..Len(columnIndex) :
        i # j => Range(columnIndex[i].val) \cap Range(columnIndex[j].val) = {}
  /\ UNION {Range(columnIndex[i].val) : i \in 1..Len(columnIndex)} = positions
  /\ \A i \in 1..Len(columnIndex) :
        Len(columnIndex[i].val) = Cardinality(Range(columnIndex[i].val))

C5_IndexCompleteness ==
  /\ filterManager.isInitialized /\ Len(data) > 0 =>
        /\ DOMAIN filterManager.dataIndex = Columns
        /\ \A c \in Columns :
              Complete(filterManager.dataIndex[c], 0..(Len(filterManager.data) - 1))
  /\ \A k \in 1..Len(indexCache) :
        LET index == indexCache[k].val
        IN  /\ index.rowCount = Len(data)
            /\ Len(data) > 0 => DOMAIN index.columnIndices = Columns
            /\ \A c \in DOMAIN index.columnIndices :
                  Complete(index.columnIndices[c], 0..(index.rowCount - 1))
  /\ \A c \in DOMAIN ofm.dataIndex : Complete(ofm.dataIndex[c], IndexedPositions)
  /\ Len(ofm.dataCache) > 0 => DOMAIN ofm.dataIndex = Columns

\* All three builders have indexed a dataset of three rows or more, the
\* chunked one chunk by chunk.
C5_AllBuilt ==
  /\ Len(data) >= 3
  /\ filterManager.isInitialized
  /\ Len(indexCache) = 1
  /\ generator.chunkSize = 2
  /\ IndexedPositions = 0..(Len(data) - 1)

\* C6 - Cache transparency under progressive indexing: every count and
\* option query of the chunked manager returns what it returns with
\* filterCache and optionsCache empty.
ColdCaches(m) == [m EXCEPT !.filterCache = <<>>, !.optionsCache = <<>>]

C6_CacheTransparency ==
  \A F \in ChunkFilterStates :
     /\ OFMgetFilteredCount(ofm, F).count = OFMgetFilteredCount(ColdCaches(ofm), F).count
     /\ \A c \in OptionColumns :
           OFMgetFilterOptions(ofm, c, F).options
             = OFMgetFilterOptions(ColdCaches(ofm), c, F).options

\* C7 - The index belongs to the current dataset: the singleton's
\* columnIndexes hold, for every column and value, exactly the positions of
\* currentData whose row holds the value.
C7_IndexOfCurrentDataset ==
  LET d == instance.currentData
  IN  Len(d) > 0 =>
        /\ DOMAIN instance.columnIndexes = DOMAIN d[1]
        /\ \A c \in DOMAIN instance.columnIndexes :
              /\ Complete(instance.columnIndexes[c], 0..(Len(d) - 1))
              /\ \A p \in 0..(Len(d) - 1) :
                    p \in Range(GenLookup(instance, c, JSString(Field(RowAt(d, p), c))))

\* C8 - Paged filtered rows: for an active filter state, each page the
\* virtual scroll requests from getFilteredDataRange holds, in position
\* order, the matching rows whose rank lies in the page's range.
effectiveTotalCount == IF Len(filters) > 0 THEN filteredCount ELSE totalCount
PageStart(page) == page * PageSize
PageEnd(page) == Min2(PageStart(page) + PageSize - 1, effectiveTotalCount - 1)

C8_PagedFilteredRows ==
  Len(ActiveEntries(filters)) > 0 /\ generator # NoGenerator =>
    LET matching == SetToSortedSeq(IndexedMatching(filters))
    IN  \A page \in 0..(CeilDiv(effectiveTotalCount, PageSize) - 1) :
           OFMgetFilteredDataRange(ofm, PageStart(page), PageEnd(page), filters)
             = SubSeq(matching, PageStart(page) + 1, Min2(PageEnd(page) + 1, Len(matching)))

\* C9 - Position order: the rows of filteredData after every action of the
\* UltraFastFilterContext are in ascending row-position order.
C9_PositionOrder == IsAscending(filteredData)

\* C10 - Impossible filters count zero: after UPDATE_FILTERS with filter
\* state F, filteredCount is the number of indexed rows matching F (the
\* total count when F constrains no column), so 0 when F selects a value
\* that no row holds.
C10_ImpossibleFiltersCountZero ==
  [][\A payload \in ChunkFilterStates :
        UPDATE_FILTERS(payload) /\ generator # NoGenerator =>
          filteredCount' = IF Len(ActiveEntries(payload)) = 0 THEN totalCount
                           ELSE Cardinality(IndexedMatching(payload))]_vars

\* C11 - Unknown columns are a soft error: when the filter state of the
\* FilterContext constrains a column that the index of data does not hold,
\* applyFilters returns no row, whatever else the state constrains, and
\* getAvailableFilterOptions returns no option for a target column that the
\* index does not hold.
C11_UnknownColumnsSoftError ==
  LET indexed == IF Len(data) = 0 THEN {} ELSE DOMAIN data[1]
  IN  /\ (\E i \in 1..Len(filters) :
             Len(filters[i].vals) > 0 /\ filters[i].col \notin indexed)
          => applyFilters(data, filters, indexCache).rows = <<>>
      /\ \A target \in FLFilterColumns \ indexed :
            getAvailableFilterOptions(data, filters, target, indexCache).options = <<>>

\* C12 - Monotonicity: a filter state that constrains every column another
\* one constrains, each to a non-empty subset of its values, and possibly
\* further columns, never counts more rows than the other one: for
\* applyFilters(...).length, for UltraFastFilterManager.getFilteredCount and
\* for OptimizedFilterManager.getFilteredCount in every state of its index
\* and caches.
Constrained(F) == {F[i].col : i \in {j \in 1..Len(F) : Len(F[j].vals) > 0}}
Stronger(F2, F) ==
  /\ Constrained(F) \subseteq Constrained(F2)
  /\ \A c \in Constrained(F) : Range(FilterGet(F2, c)) \subseteq Range(FilterGet(F, c))

C12_Monotonicity ==
  /\ \A F \in ChunkFilterStates : \A F2 \in ChunkFilterStates :
        generator # NoGenerator /\ Stronger(F2, F)
          => OFMgetFilteredCount(ofm, F2).count <= OFMgetFilteredCount(ofm, F).count
  /\ \A c \in Columns : \A vals \in SelectionsOf(c) :
        LET F2 == FilterPut(filters, c, vals)
        IN  filterManager.isInitialized /\ Stronger(F2, filters)
              => UFgetFilteredCount(filterManager, F2)
                   <= UFgetFilteredCount(filterManager, filters)
  /\ \A c \in FLFilterColumns : \A vals \in FLSelectionsOf(c) :
        LET F2 == FilterPut(filters, c, vals)
        IN  Stronger(F2, filters)
              => Len(applyFilters(data, F2, indexCache).rows)
                   <= Len(applyFilters(data, filters, indexCache).rows)

\* C13 - Order independence: a filter state and every filter state holding
\* the same entries in another key insertion order give the same rows in
\* the same order, and the same count, from applyFilters, from
\* UltraFastFilterManager.getFilteredData / getFilteredCount and from
\* UltraOptimizedDataGenerator.filterData.
KeyOrders(F) == {[i \in 1..Len(F) |-> F[p[i]]] : p \in Permutations(1..Len(F))}

\* Filter states asked of the generated dataset.
GenFilterStates ==
  { <<[col |-> "number", vals |-> <<Num(2), Num(1)>>],
      [col |-> "modulo 3", vals |-> <<Num(1), Num(2)>>]>>,
    <<[col |-> "modulo 3", vals |-> <<Num(1)>>]>> }

C13_OrderIndependence ==
  /\ \A P \in KeyOrders(filters) :
        /\ filterManager.isInitialized =>
              /\ UFgetFilteredData(filterManager, P) = UFgetFilteredData(filterManager, filters)
              /\ UFgetFilteredCount(filterManager, P)
                   = UFgetFilteredCount(filterManager, filters)
        /\ applyFilters(data, P, indexCache).rows = applyFilters(data, filters, indexCache).rows
  /\ \A F \in GenFilterStates : \A P \in KeyOrders(F) :
        filterData(instance, P) = filterData(instance, F)

\* C14 - Idempotent incremental indexing: for a chunk whose rows the
\* chunked manager has indexed, buildIndex of any indexed column and
\* cacheData with the same rows and offset leave the manager as it is, so
\* indexing the chunk again, as loadChunk does for a preloaded chunk,
\* changes no count and no option list.
ChunkIndexed(chunkIndex) ==
  /\ generator # NoGenerator
  /\ chunkIndex < getTotalChunks(generator.totalCount, generator.chunkSize)
  /\ \A p \in (chunkIndex * generator.chunkSize)
              ..(Min2((chunkIndex + 1) * generator.chunkSize, generator.totalCount) - 1) :
        p \in IndexedPositions

C14_IdempotentIndexing ==
  \A chunkIndex \in 0..(MaxTotal - 1) :
     ChunkIndexed(chunkIndex) =>
       LET rows == generateChunk(generator.totalCount, generator.chunkSize, chunkIndex)
           startIndex == chunkIndex * generator.chunkSize
           again == IndexChunk(ofm, IndexedColumns, rows, startIndex)
       IN  /\ \A i \in 1..Len(IndexedColumns) :
                 OFMbuildIndex(ofm, IndexedColumns[i], rows, startIndex) = ofm
           /\ OFMcacheData(ofm, rows, startIndex) = ofm
           /\ again.dataIndex = ofm.dataIndex /\ again.dataCache = ofm.dataCache
           /\ \A F \in ChunkFilterStates :
                 /\ OFMgetFilteredCount(again, F).count = OFMgetFilteredCount(ofm, F).count
                 /\ \A c \in OptionColumns :
                       OFMgetFilterOptions(again, c, F).options
                         = OFMgetFilterOptions(ofm, c, F).options

\* Every chunk of a dataset of five one-row chunks is indexed, the last two
\* by loadChunk, and a count is cached.
C14_AllChunksIndexed ==
  /\ generator.totalCount = MaxTotal /\ generator.chunkSize = 1
  /\ \A chunkIndex \in 0..(MaxTotal - 1) : ChunkIndexed(chunkIndex)
  /\ Len(ofm.filterCache) > 0

\* The orders a selection list can be entered in.
ValueOrders(vals) == {[i \in 1..Len(vals) |-> vals[p[i]]] : p \in Permutations(1..Len(vals))}

\* The filter states that hold the constraints of F with the columns
\* inserted, and the values of each list entered, in another order.
Reorderings(F) ==
  LET entries(e) == {[col |-> e.col, vals |-> v] : v \in ValueOrders(e.vals)}
  IN  UNION {{G \in [1..Len(K) -> UNION {entries(K[i]) : i \in 1..Len(K)}] :
                \A i \in 1..Len(K) : G[i] \in entries(K[i])} : K \in KeyOrders(F)}

\* F and G constrain the same columns to the same sets of values.
SameConstraints(F, G) ==
  /\ FilterKeys(ActiveEntries(F)) = FilterKeys(ActiveEntries(G))
  /\ \A c \in FilterKeys(ActiveEntries(F)) : Range(FilterGet(F, c)) = Range(FilterGet(G, c))

\* C15: the filter state of the chunked context and every reordering of
\* it (columns inserted in another order, values of a list in another order)
\* have the same createFilterKey key and the same JSON.stringify keys of
\* OptimizedFilterManager.getFilteredCount / getFilterOptions, and a
\* dispatched filter state with other constraints has another key.
C15_CanonicalCacheKeys ==
  /\ \A G \in Reorderings(filters) :
       /\ createFilterKey(G, NoColumn).key = createFilterKey(filters, NoColumn).key
       /\ JSONStringify(G) = JSONStringify(filters)
       /\ \A column \in {"status", "number"} :
            /\ createFilterKey(G, column).key = createFilterKey(filters, column).key
            /\ OFMOptionsKey(column, G) = OFMOptionsKey(column, filters)
  /\ \A G \in ChunkFilterStates :
       ~SameConstraints(filters, G) =>
         /\ createFilterKey(G, NoColumn).key # createFilterKey(filters, NoColumn).key
         /\ JSONStringify(G) # JSONStringify(filters)

\* C16: a query on the ChunkedFilterManager (getFilterOptions,
\* getFilteredCount, getFilteredDataRange) leaves the caller's filter object
\* as it was: the same keys in the same order, each selection list with its
\* values in the same order.
C16_EngineOnlyReadsFilters ==
  [][((\E column \in CFMColumns : CFMGetFilterOptions(column))
        \/ CFMGetFilteredCount
        \/ CFMGetFilteredDataRange(1, 2))
       => filters' = filters]_vars

\* The scan tasks[i] was started before a clearCache() or destroy() call:
\* the AbortController it started under has been aborted.
StartedBeforeClear(i) == i \in 1..Len(tasks) /\ tasks[i].controller \in cfm.aborted

\* C17: the next turn of a background scan that was started before a
\* clearCache() or destroy() call ends the scan, scans no chunk and leaves
\* filterCache as it is.
C17_CooperativeAbort ==
  [][\A i \in 1..MaxTasks :
       StartedBeforeClear(i) /\ ScanBatch(i)
         => /\ cfm'.filterCache = cfm.filterCache
            /\ Len(tasks') < Len(tasks)]_vars

\* The positions of the rows of the chunks in S.
RowsOfChunks(S) ==
  {p \in 0..(generator.totalCount - 1) : (p \div generator.chunkSize) \in S}

\* The values of column among the rows of the chunks in S that match F
\* without its selection on column.
OptionsOver(S, column, F) ==
  {JSString(Field(ChunkRow(p), column)) :
     p \in {q \in RowsOfChunks(S) :
              \A i \in 1..Len(F) :
                F[i].col # column /\ Len(F[i].vals) > 0
                  => JSString(Field(ChunkRow(q), F[i].col)) \in Range(F[i].vals)}}

AllChunks == 0..(getTotalChunks(generator.totalCount, generator.chunkSize) - 1)
ImmediateChunks == {c \in AllChunks : c < IMMEDIATE_CHUNKS}

\* What getFilterOptions(column, F) returns as a set: the data of the entry
\* under its cache key, there after the first call.
OptionsEntryKey(column, F) == CFMOptionsKey(column, createFilterKey(F, column).key)
HasOptions(column, F) == MapHas(cfm.filterCache, OptionsEntryKey(column, F))
OptionsResult(column, F) == Range(MapGet(cfm.filterCache, OptionsEntryKey(column, F)).data)

Partial(column, F) ==
  HasOptions(column, F) /\ OptionsResult(column, F) # OptionsOver(AllChunks, column, F)

Evicted ==
  LET kept == MapKeys(evictLRU(cfm.filterCache, now))
  IN  {e \in Range(cfm.filterCache) : e.key \notin Range(kept)}

\* C19: when filterCache is full, the entry the next insertion evicts is
\* one that was accessed least recently, and among the entries accessed at
\* that time one with the lowest hit count.
C19_LRUEviction ==
  Len(cfm.filterCache) >= CFM_CACHE_SIZE_LIMIT =>
    \A victim \in Evicted : \A e \in Range(cfm.filterCache) :
      \/ victim.val.timestamp < e.val.timestamp
      \/ victim.val.timestamp = e.val.timestamp /\ victim.val.hitCount <= e.val.hitCount

\* C20: no result cache holds more entries than its bound: filterCache of
\* the ChunkedFilterManager at most CACHE_SIZE_LIMIT, the chunk LRUCache at
\* most maxSize, and filterCache and optionsCache of the
\* OptimizedFilterManager, for which the source names no limit, at most the
\* limit of the other result cache however many filter states are queried.
C20_BoundedCaches ==
  /\ Len(cfm.filterCache) <= CFM_CACHE_SIZE_LIMIT
  /\ Len(lru.cache) <= MAX_CACHE_SIZE
  /\ Len(ofm.filterCache) <= CFM_CACHE_SIZE_LIMIT
  /\ Len(ofm.optionsCache) <= CFM_CACHE_SIZE_LIMIT

\* The entry getCachedEntry(key) serves now, if it serves one.
Served(key) == getCachedEntry(cfm.filterCache, key, now).found
StoredAt(key) == MapGet(cfm.filterCache, key).storedAt

\* C21: a query that is answered from filterCache is answered with a value
\* that setCacheEntry stored no more than FILTER_CACHE_TTL ago, however
\* often the entry was read since.
C21_TTLBoundsStaleness ==
  [][/\ \A column \in CFMColumns :
          LET key == CFMOptionsKey(column, createFilterKey(filters, column).key)
          IN  CFMGetFilterOptions(column) /\ Served(key)
                => now - StoredAt(key) <= FILTER_CACHE_TTL
      /\ LET countKey == CFMCountKey(createFilterKey(filters, NoColumn).key)
         IN  CFMGetFilteredCount /\ Served(countKey)
               => now - StoredAt(countKey) <= FILTER_CACHE_TTL]_vars

\* ------------------------------------------- loads that raise an exception
\* A payload entry that is null instead of a record: Object.keys(row) raises
\* a TypeError on it.
NullRow == [null |-> TRUE]

\* createUltraFastIndexes as far as it gets: the index built before the
\* first entry on which Object.keys raises, and whether one did.
RECURSIVE UFIndexRowsTry(_, _, _)
UFIndexRowsTry(index, d, p) ==
  IF p >= Len(d) THEN [index |-> index, threw |-> FALSE]
  ELSE IF RowAt(d, p) = NullRow THEN [index |-> index, threw |-> TRUE]
  ELSE UFIndexRowsTry(UFIndexRow(index, RowAt(d, p), p, Keys(RowAt(d, p))), d, p + 1)

\* new UltraFastFilterManager(data)
NewUFManager(d) ==
  [data |-> d, dataIndex |-> <<>>, filterCache |-> <<>>, isInitialized |-> FALSE]

\* initialize(): its catch block marks the manager initialized and leaves
\* dataIndex as the interrupted loop left it.
initialize(fm) ==
  IF fm.isInitialized THEN fm
  ELSE IF Len(fm.data) = 0 THEN [fm EXCEPT !.isInitialized = TRUE]
  ELSE LET built == UFIndexRowsTry(fm.dataIndex, fm.data, 0)
       IN  IF built.threw
           THEN [fm EXCEPT !.dataIndex = built.index, !.isInitialized = TRUE]
           ELSE [fm EXCEPT !.dataIndex = built.index,
                           !.filterCache = [c \in DOMAIN built.index |->
                                precomputeFilterOptions(fm.data, built.index, c)],
                           !.isInitialized = TRUE]

\* clearCache() of the UltraFastFilterManager
UFclearCache(fm) ==
  [fm EXCEPT !.filterCache = <<>>, !.dataIndex = <<>>, !.isInitialized = FALSE]

updateData(fm, newData) == initialize(UFclearCache([fm EXCEPT !.data = newData]))

LoadRows == 2
WellFormedLoads == SeqsUpTo(Rows, LoadRows)
FailingLoads ==
  {<<NullRow>>} \cup {<<r, NullRow>> : r \in Rows}
                \cup {<<r1, NullRow, r2>> : r1 \in {MkRow(1, 0)}, r2 \in Rows}
Throws(payload) == \E i \in 1..Len(payload) : payload[i] = NullRow

\* case 'SET_DATA' with a payload that may hold null entries: initialize()
\* swallows the exception, so the reducer's own catch block is not entered.
SET_DATA_Try(payload) ==
  /\ data' = payload
  /\ filteredData' = Positions(Len(payload))
  /\ filterManager' = initialize(NewUFManager(payload))
  /\ UNCHANGED <<batch, pagination, pager, cfm, tasks, now, lru, filters, indexCache, generator, ofm, totalCount, filteredCount, instance>>

\* filterManager.updateData(newData) on the manager the state holds
UPDATE_DATA(newData) ==
  /\ filterManager # NoManager
  /\ filterManager' = updateData(filterManager, newData)
  /\ UNCHANGED <<batch, pagination, pager, cfm, tasks, now, lru, data, filters, filteredData, indexCache, generator, ofm, totalCount, filteredCount, instance>>

NextLoad ==
  \/ \E payload \in WellFormedLoads \cup FailingLoads : SET_DATA_Try(payload)
  \/ \E newData \in {<<MkRow(11, 1)>>} \cup FailingLoads : UPDATE_DATA(newData)
  \/ \E values \in SelectionsOf("mod3") : UPDATE_FILTER("mod3", values)
  \/ CLEAR_FILTER("mod3")

SpecLoad == Init /\ [][NextLoad]_vars

\* On well-formed payloads the manager SET_DATA_Try builds is UFManager(payload).
LoadAgrees == \A payload \in WellFormedLoads : initialize(NewUFManager(payload)) = UFManager(payload)

\* C22: a load that raises an exception while indexing leaves the previous
\* rows, the previous manager and its index in place: SET_DATA keeps data,
\* filteredData and filterManager, and updateData keeps the manager's data
\* and dataIndex.
C22_FailedLoadKeepsPrevious ==
  [][\A payload \in FailingLoads :
       /\ SET_DATA_Try(payload)
            => data' = data /\ filteredData' = filteredData /\ filterManager' = filterManager
       /\ UPDATE_DATA(payload) => filterManager' = filterManager]_vars

\* ------------------------------------------------ rows of differing key sets
OnlyNumber(n) == [c \in {"number"} |-> NumberCell(n)]
OnlyMod3(m) == [c \in {"mod3"} |-> StringCell(Num(m))]
JaggedRows == {MkRow(1, 0), MkRow(11, 1), OnlyNumber(1), OnlyMod3(1)}
JaggedDatasets == SeqsUpTo(JaggedRows, MaxRows) \ {<<>>}

\* columnIndices.get(column)!.has(stringValue) raises a TypeError when the
\* row holds a column for which the first row created no map.
FLIndexThrows(d) == \E i \in 1..Len(d) : ~(DOMAIN d[i] \subseteq DOMAIN d[1])

InitJagged ==
  /\ data \in JaggedDatasets
  /\ \E size \in ChunkSizes :
        /\ generator = [totalCount |-> Len(data), chunkSize |-> size]
        /\ ofm = NewOFM(Len(data), size)
  /\ filters = <<>>
  /\ filteredData = <<>>
  /\ filterManager = NoManager
  /\ indexCache = <<>>
  /\ totalCount = 0
  /\ filteredCount = 0
  /\ instance = NewGenerator
  /\ cfm = NewCFM
  /\ tasks = <<>>
  /\ now = 0
  /\ lru = NewChunkCache
  /\ pagination = InitialPagination
  /\ pager = InitialPager
  /\ batch = NoBatch

\* buildOptimizedFilterIndex(data, cacheKey): the exception leaves the call
\* before indexCache.set.
BuildOptimizedFilterIndexTry ==
  IF FLIndexThrows(data) THEN UNCHANGED vars ELSE BuildOptimizedFilterIndex

NextJagged ==
  \/ Initialize
  \/ BuildOptimizedFilterIndexTry
  \/ \E chunkIndex \in 0..(MaxRows - 1) : BuildIndexOfChunk(chunkIndex)

SpecJagged == InitJagged /\ [][NextJagged]_vars

\* Row p is a member of exactly one value set of the column index.
MemberOfOne(colIndex, p) ==
  Cardinality({i \in 1..Len(colIndex) : p \in Range(colIndex[i].val)}) = 1
UnderUndefined(colIndex, p) ==
  MapHas(colIndex, StrUndefined) /\ p \in Range(MapGet(colIndex, StrUndefined))
Indexed(colIndex, p) == \E i \in 1..Len(colIndex) : p \in Range(colIndex[i].val)
Tolerates(colIndex, c, p) ==
  /\ MemberOfOne(colIndex, p)
  /\ c \notin DOMAIN RowAt(data, p) => UnderUndefined(colIndex, p)

UFTolerates ==
  filterManager.isInitialized =>
    \A c \in DOMAIN filterManager.dataIndex : \A p \in 0..(Len(data) - 1) :
       Tolerates(filterManager.dataIndex[c], c, p)
FLTolerates ==
  MapHas(indexCache, CacheKeyOf(data)) =>
    LET index == MapGet(indexCache, CacheKeyOf(data)).columnIndices
    IN  \A c \in DOMAIN index : \A p \in 0..(Len(data) - 1) : Tolerates(index[c], c, p)
OFMTolerates ==
  \A c \in DOMAIN ofm.dataIndex : \A p \in 0..(Len(data) - 1) :
     Indexed(ofm.dataIndex[c], p) => Tolerates(ofm.dataIndex[c], c, p)

\* C23: whatever the key sets of the rows, in every index that was built
\* (by buildOptimizedFilterIndex, createUltraFastIndexes or buildIndex) each
\* row is a member of exactly one value set of each indexed column, the set
\* of "undefined" when the row lacks the column.
C23_JaggedRecordsTolerated == FLTolerates /\ UFTolerates /\ OFMTolerates

\* --------------------------------------------------- the order of options
\* Values of a text column: two decimal literals, a range label and a token.
OrderValues == {Num(9), Num(10), Rng(10, 20, 1), Active}
OrderRow(v) == [c \in {"status"} |-> StringCell(v)]
OrderDatasets == SeqsUpTo({OrderRow(v) : v \in OrderValues}, MaxRows) \ {<<>>}

InitOrder ==
  /\ data \in OrderDatasets
  /\ generator = [totalCount |-> Len(data), chunkSize |-> Len(data)]
  /\ ofm = NewOFM(Len(data), Len(data))
  /\ filters = <<>>
  /\ filteredData = <<>>
  /\ filterManager = NoManager
  /\ indexCache = <<>>
  /\ totalCount = 0
  /\ filteredCount = 0
  /\ instance = NewGenerator
  /\ cfm = NewCFM
  /\ tasks = <<>>
  /\ now = 0
  /\ lru = NewChunkCache
  /\ pagination = InitialPagination
  /\ pager = InitialPager
  /\ batch = NoBatch

\* buildIndex('status', data, 0)
OrderBuildIndex ==
  /\ "status" \notin DOMAIN ofm.dataIndex
  /\ ofm' = OFMbuildIndex(ofm, "status", data, 0)
  /\ UNCHANGED <<batch, pagination, pager, cfm, tasks, now, lru, data, filters, filteredData, filterManager, indexCache, generator,
                 totalCount, filteredCount, instance>>

\* calculateFilterCounts / getAvailableFilterOptions(data, {}, 'status'):
\* filteredData holds the positions of the first row of each option, in the
\* order of the returned list.
OrderGetAvailableFilterOptions ==
  /\ filteredData = <<>>
  /\ filteredData' =
       LET options == getAvailableFilterOptions(data, <<>>, "status", indexCache).options
       IN  [i \in 1..Len(options) |->
              CHOOSE p \in 0..(Len(data) - 1) :
                /\ JSString(Field(RowAt(data, p), "status")) = options[i].value
                /\ \A q \in 0..(p - 1) : JSString(Field(RowAt(data, q), "status")) # options[i].value]
  /\ indexCache' = getAvailableFilterOptions(data, <<>>, "status", indexCache).cache
  /\ UNCHANGED <<batch, pagination, pager, cfm, tasks, now, lru, data, filters, filterManager, generator, ofm,
                 totalCount, filteredCount, instance>>

NextOrder ==
  \/ OrderBuildIndex
  \/ getFilterOptions("status")
  \/ OrderGetAvailableFilterOptions

SpecOrder == InitOrder /\ [][NextOrder]_vars

\* The option lists the state holds: the list getFilterOptions cached and the
\* list getAvailableFilterOptions returned.
OptionLists ==
  {ofm.optionsCache[i].val : i \in 1..Len(ofm.optionsCache)}
    \cup (IF filteredData = <<>> THEN {}
          ELSE {[i \in 1..Len(filteredData) |->
                   JSString(Field(RowAt(data, filteredData[i]), "status"))]})

ValuesOf(d) == {JSString(Field(d[i], "status")) : i \in 1..Len(d)}
Before(x, y) == ValueCmp(x, y) < 0
Ascending(list) == \A i, j \in 1..Len(list) : i < j => Before(list[i], list[j])
TotalOrderOn(S) ==
  /\ \A x, y \in S : x # y => (Before(x, y) /\ ~Before(y, x)) \/ (Before(y, x) /\ ~Before(x, y))
  /\ \A x, y, z \in S : Before(x, y) /\ Before(y, z) => Before(x, z)
\* The list returned when the same values were inserted in the order of d.
ListOf(d) == SortStrings(MapKeys(OFMIndexRows(<<>>, "status", d, 0, 0)))

\* C24: every option list returned is ascending in the comparator's order,
\* that order is antisymmetric and transitive on the values listed, and the
\* list is the one returned for any other insertion order of the same values.
C24_OptionOrderingTotal ==
  \A list \in OptionLists :
    /\ TotalOrderOn(Range(list))
    /\ Ascending(list)
    /\ \A d \in OrderDatasets : ValuesOf(d) = ValuesOf(data) => ListOf(d) = list

\* ------------------------------------------- the columns an evaluation reads
\* The columns whose value sets getMatchingIndices reads, in order: the first
\* column, then every column of the loop up to the one after which
\* matchingIndices.size === 0 is tested true.
RECURSIVE UFReadRemaining(_, _, _)
UFReadRemaining(fm, entries, matching) ==
  IF entries = <<>> THEN <<>>
  ELSE LET new == UFIntersect(fm, Head(entries).col, Head(entries).vals, matching, <<>>)
       IN  <<Head(entries).col>>
             \o (IF Len(new) = 0 THEN <<>> ELSE UFReadRemaining(fm, Tail(entries), new))

UFColumnsRead(fm, entries) ==
  IF Len(entries) = 0 THEN <<>>
  ELSE <<Head(entries).col>>
         \o UFReadRemaining(fm, Tail(entries),
                            UFUnion(fm, Head(entries).col, Head(entries).vals, <<>>))

\* The columns whose value sets the loop of applyFilters reads.
RECURSIVE FLColumnsRead(_, _, _)
FLColumnsRead(index, entries, valid) ==
  IF entries = <<>> THEN <<>>
  ELSE LET e == Head(entries) IN
       IF e.col \notin DOMAIN index.columnIndices
       THEN FLColumnsRead(index, Tail(entries), valid)
       ELSE LET columnIndices == FLUnion(index.columnIndices[e.col], e.vals, <<>>) IN
            IF valid = <<-1>>
            THEN <<e.col>> \o FLColumnsRead(index, Tail(entries), columnIndices)
            ELSE LET smaller == IF Len(valid) < Len(columnIndices) THEN valid ELSE columnIndices
                     larger == IF Len(valid) < Len(columnIndices) THEN columnIndices ELSE valid
                     both == SeqFilterIn(smaller, larger)
                 IN  <<e.col>>
                       \o (IF Len(both) = 0 THEN <<>> ELSE FLColumnsRead(index, Tail(entries), both))

\* The columns whose value sets the loop of getFilteredIndices reads.
RECURSIVE OFMColumnsRead(_, _, _, _)
OFMColumnsRead(m, entries, excludeColumn, result) ==
  IF entries = <<>> THEN <<>>
  ELSE LET e == Head(entries) IN
       IF e.col = excludeColumn \/ Len(e.vals) = 0
       THEN OFMColumnsRead(m, Tail(entries), excludeColumn, result)
       ELSE IF e.col \notin DOMAIN m.dataIndex THEN <<>>
       ELSE LET columnIndices == OFMUnion(m.dataIndex[e.col], e.vals, <<>>)
                next == IF result = Null THEN columnIndices
                        ELSE SeqFilterIn(result, columnIndices)
            IN  <<e.col>>
                  \o (IF Len(next) = 0 THEN <<>>
                      ELSE OFMColumnsRead(m, Tail(entries), excludeColumn, next))

\* The columns of entries up to the first after which the running result,
\* of size sizes[i] after column i, is empty.
UpToFirstEmpty(entries, sizes) ==
  LET stops == {i \in 1..Len(entries) : sizes[i] = 0}
      last == IF stops = {} THEN Len(entries)
              ELSE CHOOSE i \in stops : \A j \in stops : i <= j
  IN  [i \in 1..last |-> entries[i].col]

UFEarlyExit ==
  filterManager.isInitialized =>
    LET entries == ActiveEntries(filters)
    IN  UFColumnsRead(filterManager, entries)
          = UpToFirstEmpty(entries, [i \in 1..Len(entries) |->
                Len(getMatchingIndices(filterManager, SubSeq(entries, 1, i)))])

FLEarlyExit ==
  Len(data) >= SMALL_DATASET_THRESHOLD /\ MapHas(indexCache, CacheKeyOf(data)) =>
    LET index == MapGet(indexCache, CacheKeyOf(data))
        entries == SelectSeq(SortBySelectivity(index, ActiveEntries(filters)),
                             LAMBDA e : e.col \in DOMAIN index.columnIndices)
    IN  FLColumnsRead(index, entries, <<-1>>)
          = UpToFirstEmpty(entries, [i \in 1..Len(entries) |->
                Len(FLIntersectLoop(index, SubSeq(entries, 1, i), <<-1>>).valid)])

OFMEarlyExit ==
  LET active == ActiveEntries(filters)
      unknown == {i \in 1..Len(active) : active[i].col \notin DOMAIN ofm.dataIndex}
      entries == IF unknown = {} THEN active
                 ELSE SubSeq(active, 1, (CHOOSE i \in unknown : \A j \in unknown : i <= j) - 1)
  IN  OFMColumnsRead(ofm, filters, NoColumn, Null)
        = UpToFirstEmpty(entries, [i \in 1..Len(entries) |->
              Len(getFilteredIndices(ofm, SubSeq(entries, 1, i), NoColumn))])

\* C25: an evaluation of the active columns reads the value sets of the
\* columns up to the first one after which the running result is empty, the
\* first column included, and of no column after it: in getMatchingIndices,
\* in the indexed strategy of applyFilters and in getFilteredIndices.
C25_EarlyExit == UFEarlyExit /\ FLEarlyExit /\ OFMEarlyExit

\* pagination agrees with filteredData
PaginationConsistent ==
  /\ pagination.totalItems = Len(filteredData)
  /\ pagination.totalPages = CeilDiv(pagination.totalItems, pagination.pageSize)

\* A row satisfies F as the UltraFastFilterManager reads filter values: on
\* a numeric column a value `a-b` admits the numbers of [a, b] and any other
\* value the number it denotes; elsewhere a value admits the equal string.
Admits(row, c, v) ==
  IF c \in numericColumns
  THEN IF IncludesDash(v) THEN InRangeText(JSNumber(Field(row, c)), v)
       ELSE ~IsNaN(JSNumber(Field(row, c))) /\ JSNumber(Field(row, c)) = StrToNumber(v)
  ELSE JSString(Field(row, c)) = v
Satisfies(row, F) ==
  \A i \in 1..Len(F) :
     Len(F[i].vals) = 0 \/ \E v \in Range(F[i].vals) : Admits(row, F[i].col, v)
SatisfyingPositions(d, F) == {p \in 0..(Len(d) - 1) : Satisfies(RowAt(d, p), F)}

\* C26: in every state a reducer reaches, filteredData holds exactly the
\* rows of data that satisfy filters, each once, and the state of the
\* paginated reducer (the one holding no filter manager) has
\* totalItems = filteredData.length and totalPages = ceil(totalItems / pageSize).
C26_ReducerInvariant ==
  /\ Len(filteredData) = Cardinality(Range(filteredData))
  /\ filterManager = NoManager =>
        Range(filteredData) = MatchingPositions(data, filters) /\ PaginationConsistent
  /\ filterManager # NoManager =>
        Range(filteredData) = SatisfyingPositions(data, filters)

\* ------------------------------------------------------- applyFiltersBatch
MaxBatchRows == 4
BatchDatasets == {d \in SeqsUpTo(FLRows, MaxBatchRows) : Len(d) >= 1}
BatchSizes == 1..3
BatchFilterStates ==
  {<<>>, <<[col |-> "number", vals |-> <<Num(1)>>]>>,
   <<[col |-> "mod3", vals |-> <<Num(1), Num(0)>>], [col |-> "number", vals |-> <<Num(11)>>]>>}

\* applyFiltersBatch(data, filters, batchSize) up to its first processBatch()
InitBatch ==
  /\ data \in BatchDatasets
  /\ filters \in BatchFilterStates
  /\ \E batchSize \in BatchSizes :
        batch = [batchSize |-> batchSize, processed |-> 0, results |-> <<>>, resolved |-> FALSE]
  /\ filteredData = <<>>
  /\ filterManager = NoManager
  /\ indexCache = <<>>
  /\ generator = NoGenerator
  /\ ofm = NewOFM(0, 0)
  /\ totalCount = 0
  /\ filteredCount = 0
  /\ instance = NewGenerator
  /\ cfm = NewCFM
  /\ tasks = <<>>
  /\ now = 0
  /\ lru = NewChunkCache
  /\ pagination = InitialPagination
  /\ pager = InitialPager

\* processBatch(): one batch goes through applyFilters; the rows it returns
\* are rows of the batch, positions batchStart + rowIndex of data.
processBatch ==
  /\ ~batch.resolved
  /\ LET batchStart == batch.processed
         batchEnd == Min2(batch.processed + batch.batchSize, Len(data))
         rows == SubSeq(data, batchStart + 1, batchEnd)
         applied == applyFilters(rows, filters, indexCache)
         filteredBatch == [i \in 1..Len(applied.rows) |-> batchStart + applied.rows[i]]
     IN  /\ indexCache' = applied.cache
         /\ batch' = [batch EXCEPT !.results = batch.results \o filteredBatch,
                                   !.processed = batchEnd,
                                   !.resolved = ~(batchEnd < Len(data))]
  /\ UNCHANGED <<pagination, pager, cfm, tasks, now, lru, data, filters, filteredData, filterManager,
                 generator, ofm, totalCount, filteredCount, instance>>

NextBatch == processBatch

SpecBatch == InitBatch /\ [][NextBatch]_vars

\* C27: the promise of applyFiltersBatch resolves to the rows of data that
\* match the filters row by row, in position order, whatever the batch size.
C27_BatchEquivalence ==
  batch.resolved => batch.results = SetToSortedSeq(MatchingPositions(data, filters))

\* -------------------------------------------------------------- pagination
MaxPage == 3
PageSizes == {1, 2}

\* case 'SET_PAGE', dispatched with a page the pagination control offers
SET_PAGE(payload) ==
  /\ payload <= Max2(1, pagination.totalPages)
  /\ pagination' = [pagination EXCEPT !.currentPage = payload]
  /\ UNCHANGED <<batch, pager, cfm, tasks, now, lru, data, filters, filteredData, filterManager,
                 indexCache, generator, ofm, totalCount, filteredCount, instance>>

\* usePagination(sortedData.length, 100): totalItems is the number of rows
\* the table was given, state.filteredData.
PagerTotalItems == Len(filteredData)
PagerTotalPages == CeilDiv(PagerTotalItems, pager.pageSize)

goToPage(page) ==
  LET maxPage == CeilDiv(PagerTotalItems, pager.pageSize)
  IN  /\ pager' = [pager EXCEPT !.currentPage = Max2(1, Min2(page, maxPage))]
      /\ UNCHANGED <<batch, pagination, cfm, tasks, now, lru, data, filters, filteredData,
                     filterManager, indexCache, generator, ofm, totalCount, filteredCount, instance>>

nextPage == goToPage(pager.currentPage + 1)

prevPage == goToPage(pager.currentPage - 1)

changePageSize(newPageSize) ==
  /\ pager' = [pager EXCEPT !.pageSize = newPageSize, !.currentPage = 1]
  /\ UNCHANGED <<batch, pagination, cfm, tasks, now, lru, data, filters, filteredData,
                 filterManager, indexCache, generator, ofm, totalCount, filteredCount, instance>>

NextPagination ==
  \/ \E payload \in FLDatasets : FL_SET_DATA(payload)
  \/ \E values \in FLSelectionsOf("mod3") : FL_UPDATE_FILTER("mod3", values)
  \/ FL_CLEAR_FILTER("mod3")
  \/ FL_CLEAR_ALL_FILTERS
  \/ \E payload \in 1..MaxPage : SET_PAGE(payload)
  \/ \E page \in 1..MaxPage : goToPage(page)
  \/ nextPage
  \/ prevPage
  \/ \E newPageSize \in PageSizes : changePageSize(newPageSize)

SpecPagination == Init /\ [][NextPagination]_vars

ReducerPageInRange ==
  pagination.currentPage >= 1 /\ pagination.currentPage <= Max2(1, pagination.totalPages)
PagerPageInRange ==
  pager.currentPage >= 1 /\ pager.currentPage <= Max2(1, PagerTotalPages)

\* C28: the current page lies between 1 and max(1, totalPages), in the
\* reducer's pagination and in the state of usePagination, whatever the
\* page operations and the changes of the number of rows before.
C28_PageInRange == ReducerPageInRange /\ PagerPageInRange

\* ------------------------------------------------- buckets of numeric options
\* The rows getFilteredData returns when the single option value is selected
\* on the column.
RowsOfOption(fm, c, value) == Range(UFgetFilteredData(fm, <<[col |-> c, vals |-> <<value>>]>>))
NumericPositions(fm, c) ==
  {p \in 0..(Len(fm.data) - 1) : ~IsNaN(JSNumber(Field(RowAt(fm.data, p), c)))}

\* C29: the options createNumericFilterOptions returns for a numeric column
\* partition its rows: every row holding a number is selected by exactly
\* one option, and selecting a single option matches as many rows as the
\* option's count says (getFilteredCount = count).
C29_BucketsPartitionRows ==
  filterManager.isInitialized =>
    \A c \in DOMAIN filterManager.filterCache \cap numericColumns :
      LET options == filterManager.filterCache[c]
      IN  /\ \A p \in NumericPositions(filterManager, c) :
                Cardinality({i \in 1..Len(options) :
                               p \in RowsOfOption(filterManager, c, options[i].value)}) = 1
          /\ \A i \in 1..Len(options) :
                UFgetFilteredCount(filterManager,
                                   <<[col |-> c, vals |-> <<options[i].value>>]>>)
                  = options[i].count

\* The chunks a cleanup down to targetSize keeps: the most recently used.
MostRecent(c) ==
  Range(SubSeq(c.accessOrder, Max2(1, Len(c.accessOrder) - targetSize + 1), Len(c.accessOrder)))

\* C30: no call chain updateMemoryUsage -> performMemoryCleanup ->
\* updateMemoryUsage runs without end (every cacheChunk and every cleanup
\* returns), a chunk that generateChunk has just cached is in the cache when
\* the call returns, and a cleanup keeps the targetSize most recently used
\* chunks.
C30_MemoryCleanupTerminates ==
  /\ [](~lru.rangeError)
  /\ [][/\ \A chunkIndex \in 0..(MaxTotal - 1) :
             GenerateChunk(chunkIndex) /\ chunkIndex \notin lru.loadingChunks
               => chunkIndex \in Range(lru'.cache)
        /\ MemoryCleanup => MostRecent(lru) \subseteq Range(lru'.cache)]_vars

====
